---- MODULE Spec2Model ----
(***************************************************************************)
(* Model of build.py (Sol Mountain ski weather build): the source          *)
(* adapters, the day aggregator in main(), the cache store and the         *)
(* avalanche formatting functions.                                         *)
(*                                                                         *)
(* Conventions.  Python None is the record None.  Date strings of the trip *)
(* window are the integers 1..NumDates (2026-03-01 is date 1), date 0 is a *)
(* date before the window.  Temperatures and wind speeds of the upstream   *)
(* payload are in tenths, snowfall in hundredths of a cm; the rounded      *)
(* snowfall of a record (round(x, 1)) is in tenths of a cm.  A Python      *)
(* exception that leaves a function is the record Raise(kind).             *)
(***************************************************************************)
EXTENDS Integers, Sequences, FiniteSets, TLC

VARIABLES
    \* ---- main(): one build run after another ----
    pc,            \* position in main()
    upstream,      \* what each provider answers during this series of runs
    cacheFile,     \* data.json on disk
    reportFile,    \* index.html on disk
    mtn_data, val_data, metar, avy_data, ec_forecasts,   \* locals of main()
    previous,      \* the loaded cache (dict), mutated by the loop
    days,          \* the output day sequence
    dateIdx,       \* loop index into trip_dates()
    notices,       \* lines printed that report a fetch, a cache hit or a gap
    fetched,       \* adapters invoked through safe_fetch, in call order
    exitStatus,    \* process exit status, None while running
    written,       \* files written during this run, in order
    loaded,        \* the cache as load_previous returned it in this run (history)
    cacheOps,      \* loads, entry assignments and saves of the cache in this run (history)
    lastRun,       \* what the previous run produced, None in the first (history)
    \* ---- fetch_environment_canada() ----
    ec_pc, ec_env, ec_now, ec_offset, ec_probes, ec_result,
    \* ---- fetch_avalanche_canada() ----
    av_pc, av_env, av_region, av_requests, av_result,
    \* ---- avalanche formatting functions applied to one input ----
    fn_pc, fn_avy, fn_day, fn_banner, fn_notes, fn_page,
    \* ---- one call of a utility, data-processing or narrative function ----
    call_fn,       \* the function called
    call_arg,      \* its argument(s)
    call_out       \* what it returned, None before the call

mainVars == <<pc, upstream, cacheFile, reportFile, mtn_data, val_data, metar,
              avy_data, ec_forecasts, previous, days, dateIdx, notices, fetched,
              exitStatus, written, loaded, cacheOps, lastRun>>
ecVars == <<ec_pc, ec_env, ec_now, ec_offset, ec_probes, ec_result>>
avVars == <<av_pc, av_env, av_region, av_requests, av_result>>
fnVars == <<fn_pc, fn_avy, fn_day, fn_banner, fn_notes, fn_page>>
callVars == <<call_fn, call_arg, call_out>>
vars == <<mainVars, ecVars, avVars, fnVars, callVars>>

None == [none |-> TRUE]
Raise(kind) == [raised |-> kind]
IsRaise(v) == \E kind \in {"AttributeError", "RuntimeError", "URLError"} : v = Raise(kind)

\* A provider's answer to a request: Raise(kind), or the value it returns.
Returns(x) == [value |-> x]

\* Python truthiness of an optional dict (the model has no empty dict).  A list
\* that may be missing is the empty sequence when it is.
Truthy(v) == v # None

(***************************************************************************)
(* Bounds of the model.                                                    *)
(***************************************************************************)
NumDates == 2        \* length of the trip window (7 in CONFIG)
MaxDegree == 400     \* wind directions passed to deg_to_compass: -MaxDegree..MaxDegree
MaxTemp == 30        \* temperatures passed to freezing_level: -MaxTemp..MaxTemp
MaxDays == 2         \* length of the day sequences passed to gen_week_outlook
MaxCatalog == 2      \* entries of the avalanche metadata catalog

(***************************************************************************)
(* Utilities.                                                              *)
(***************************************************************************)
\* Python round() of the rational n/d (d > 0): nearest integer, ties to even.
RoundHalfEven(n, d) ==
    LET q == n \div d
        r == n % d
    IN  IF 2 * r < d THEN q
        ELSE IF 2 * r > d THEN q + 1
        ELSE IF q % 2 = 0 THEN q ELSE q + 1

RECURSIVE SeqSum(_)
SeqSum(s) == IF s = <<>> THEN 0 ELSE Head(s) + SeqSum(Tail(s))

SeqMax(s) == CHOOSE x \in {s[i] : i \in DOMAIN s} : \A i \in DOMAIN s : s[i] <= x
SeqMin(s) == CHOOSE x \in {s[i] : i \in DOMAIN s} : \A i \in DOMAIN s : x <= s[i]

\* list.index(x): the first position holding x, 0 when there is none (ValueError).
IndexOf(s, x) ==
    IF \E i \in DOMAIN s : s[i] = x
    THEN CHOOSE i \in DOMAIN s : s[i] = x /\ \A j \in 1..(i - 1) : s[j] # x
    ELSE 0

DIRS == <<"N", "NE", "E", "SE", "S", "SW", "W", "NW">>

\* Variant of deg_to_compass: int() in place of round(), buckets start at 0, 45, ...
deg_to_compass_Truncating(deg) ==
    IF deg = None THEN "--"
    ELSE DIRS[((((deg.int % 360) \div 45) % 8) + 1)]

deg_to_compass(deg) ==
    IF deg = None THEN "--"
    ELSE DIRS[(RoundHalfEven(deg.int % 360, 45) % 8) + 1]

WMO ==
    (0 :> <<"Clear sky", "sun">>) @@ (1 :> <<"Mainly clear", "sun-small-cloud">>) @@
    (2 :> <<"Partly cloudy", "sun-cloud">>) @@ (3 :> <<"Overcast", "cloud">>) @@
    (45 :> <<"Fog", "fog">>) @@ (48 :> <<"Rime fog", "fog">>) @@
    (51 :> <<"Light drizzle", "rain">>) @@ (53 :> <<"Drizzle", "rain">>) @@
    (55 :> <<"Heavy drizzle", "rain">>) @@
    (56 :> <<"Freezing drizzle", "rain">>) @@ (57 :> <<"Heavy freezing drizzle", "rain">>) @@
    (61 :> <<"Light rain", "rain">>) @@ (63 :> <<"Rain", "rain">>) @@
    (65 :> <<"Heavy rain", "rain">>) @@
    (66 :> <<"Freezing rain", "rain">>) @@ (67 :> <<"Heavy freezing rain", "rain">>) @@
    (71 :> <<"Light snow", "snow">>) @@ (73 :> <<"Snow", "snow">>) @@
    (75 :> <<"Heavy snow", "snow">>) @@ (77 :> <<"Snow grains", "snow">>) @@
    (80 :> <<"Light showers", "sun-rain">>) @@ (81 :> <<"Showers", "rain">>) @@
    (82 :> <<"Heavy showers", "rain">>) @@
    (85 :> <<"Light snow showers", "snow">>) @@ (86 :> <<"Heavy snow showers", "snow">>) @@
    (95 :> <<"Thunderstorm", "storm">>) @@ (96 :> <<"T-storm + hail", "storm">>) @@
    (99 :> <<"Severe t-storm", "storm">>)

\* (desc, icon) of a weather code; an unknown code reads as overcast.
wmo_info(code) == IF code \in DOMAIN WMO THEN WMO[code] ELSE WMO[3]

MountainElev == 1900

\* Variant of freezing_level: int() in place of round().
freezing_level_Truncating(temp_c, elev_m) == (elev_m * 13 + temp_c * 2000) \div 13

\* round(elev_m + (temp_c / 6.5) * 1000), temp_c a whole number of degrees.
freezing_level(temp_c, elev_m) == RoundHalfEven(elev_m * 13 + temp_c * 2000, 13)

DAY_NAMES == <<"Monday", "Tuesday", "Wednesday", "Thursday", "Friday", "Saturday", "Sunday">>
SHORT_DAYS == <<"Mon", "Tue", "Wed", "Thu", "Fri", "Sat", "Sun">>

\* datetime.weekday() of a date: 2026-03-01 (date 1) is a Sunday (6).
Weekday(date_str) == (date_str + 5) % 7

\* "Sun, Mar 1": the short weekday, the month and the day of the month
\* (date 0 is Feb 28).
fmt_date(date_str) ==
    <<SHORT_DAYS[Weekday(date_str) + 1],
      IF date_str >= 1 THEN "Mar" ELSE "Feb",
      IF date_str >= 1 THEN date_str ELSE 28 + date_str>>

day_of_week(date_str) == DAY_NAMES[Weekday(date_str) + 1]

\* trip_dates(): the consecutive dates trip_start..trip_end, in calendar order.
trip_dates == [i \in 1..NumDates |-> i]

Num(n) == [int |-> n]

(***************************************************************************)
(* Data processing.                                                        *)
(***************************************************************************)
\* Variant of HourlyInRange: the end hour belongs to the period.
HourlyInRange_EndInclusive(hourly, date_str, start_h, end_h) ==
    SelectSeq(hourly, LAMBDA e : e.date = date_str /\ start_h <= e.hour /\ e.hour <= end_h)

\* The entries of the hourly series lying on date_str with start_h <= hour < end_h,
\* in series order (the six parallel lists of the source are one list of rows).
HourlyInRange(hourly, date_str, start_h, end_h) ==
    SelectSeq(hourly, LAMBDA e : e.date = date_str /\ start_h <= e.hour /\ e.hour < end_h)

extract_hourly_period(hourly, date_str, start_h, end_h) ==
    LET rows == HourlyInRange(hourly, date_str, start_h, end_h)
        temps == [i \in DOMAIN rows |-> rows[i].temperature_2m]
        snows == [i \in DOMAIN rows |-> rows[i].snowfall]
        winds == [i \in DOMAIN rows |-> rows[i].windspeed_10m]
        wind_dirs == [i \in DOMAIN rows |-> rows[i].winddirection_10m]
        codes == [i \in DOMAIN rows |-> rows[i].weathercode]
        clouds == [i \in DOMAIN rows |-> rows[i].cloudcover]
    IN  IF temps = <<>> THEN None
        ELSE LET max_wind_idx == IndexOf(winds, SeqMax(winds))
             IN  [temp_min |-> RoundHalfEven(SeqMin(temps), 10),
                  temp_max |-> RoundHalfEven(SeqMax(temps), 10),
                  temp_avg |-> RoundHalfEven(SeqSum(temps), 10 * Len(temps)),
                  snow_total |-> RoundHalfEven(SeqSum(snows), 10),
                  wind_max |-> RoundHalfEven(SeqMax(winds), 10),
                  wind_dir |-> deg_to_compass(Num(wind_dirs[max_wind_idx])),
                  weather_code |-> SeqMax(codes),
                  cloud_avg |-> RoundHalfEven(SeqSum(clouds), Len(clouds))]

\* The DailyStats of a location at row r of its daily series.
MountainStats(r) ==
    [high |-> RoundHalfEven(r.temperature_2m_max, 10),
     low |-> RoundHalfEven(r.temperature_2m_min, 10),
     precip |-> r.precipitation_sum,
     snow |-> RoundHalfEven(r.snowfall_sum, 10),
     wind_max |-> RoundHalfEven(r.windspeed_10m_max, 10),
     wind_dir |-> deg_to_compass(Num(r.winddirection_10m_dominant)),
     weather_code |-> r.weathercode]

\* val of process_day: None on ValueError (date not in the valley series) and on
\* KeyError (the valley payload has no daily series).
ValleyStats(date_str, vdata) ==
    IF "daily" \notin DOMAIN vdata THEN None
    ELSE LET times == [i \in DOMAIN vdata.daily |-> vdata.daily[i].time]
             vi == IndexOf(times, date_str)
         IN  IF vi = 0 THEN None
             ELSE LET vd == vdata.daily[vi]
                  IN  [high |-> RoundHalfEven(vd.temperature_2m_max, 10),
                       low |-> RoundHalfEven(vd.temperature_2m_min, 10),
                       snow |-> RoundHalfEven(vd.snowfall_sum, 10),
                       weather_code |-> vd.weathercode]

process_day(date_str, mtn, val) ==
    LET times == [i \in DOMAIN mtn.daily |-> mtn.daily[i].time]
        day_idx == IndexOf(times, date_str)
    IN  IF day_idx = 0 THEN None
        ELSE LET m == MountainStats(mtn.daily[day_idx])
                 am == extract_hourly_period(mtn.hourly, date_str, 6, 12)
                 pm == extract_hourly_period(mtn.hourly, date_str, 12, 18)
                 night == extract_hourly_period(mtn.hourly, date_str, 18, 24)
                 all_day == extract_hourly_period(mtn.hourly, date_str, 6, 24)
                 info == wmo_info(m.weather_code)
             IN  [date |-> date_str,
                  date_fmt |-> fmt_date(date_str),
                  day_of_week |-> day_of_week(date_str),
                  icon |-> info[2],
                  weather_desc |-> info[1],
                  mountain |-> m,
                  valley |-> ValleyStats(date_str, val),
                  am |-> am, pm |-> pm, night |-> night,
                  avg_cloud |-> IF all_day # None THEN all_day.cloud_avg ELSE 50,
                  freezing_level |-> freezing_level(m.high, MountainElev)]

(***************************************************************************)
(* Text.  A string that the code searches or lower-cases is a sequence of  *)
(* one-character strings.                                                  *)
(***************************************************************************)
\* str.lower() on the letters the model's titles and labels use.
LowerChar(c) ==
    CASE c = "A" -> "a" [] c = "C" -> "c" [] c = "E" -> "e" [] c = "H" -> "h"
      [] c = "M" -> "m" [] c = "N" -> "n" [] c = "O" -> "o" [] c = "P" -> "p"
      [] c = "S" -> "s" [] c = "T" -> "t" [] c = "D" -> "d" [] c = "U" -> "u"
      [] c = "Y" -> "y" [] OTHER -> c

Lower(str) == [i \in DOMAIN str |-> LowerChar(str[i])]

\* needle in hay
Contains(hay, needle) ==
    \E i \in 0..(Len(hay) - Len(needle)) : SubSeq(hay, i + 1, i + Len(needle)) = needle

(***************************************************************************)
(* Narratives.  A note is the sequence of its clauses; a clause is a       *)
(* record naming the sentence and the values printed in it.                *)
(***************************************************************************)
gen_summary(day) ==
    <<[clause |-> "desc", desc |-> day.weather_desc]>>
    \o (IF day.mountain.snow > 0
        THEN <<[clause |-> "snow", cm10 |-> day.mountain.snow]>> ELSE <<>>)
    \o (IF day.mountain.wind_max > 20
        THEN <<[clause |-> "winds", kmh |-> day.mountain.wind_max]>> ELSE <<>>)

\* Variant of gen_backcountry: the moderate-wind clause from 15 km/h on.
gen_backcountry_WindInclusive(day) ==
    LET cloud == day.avg_cloud
        snow == day.mountain.snow
        wind == day.mountain.wind_max
        high == day.mountain.high
    IN  <<IF cloud < 30 THEN [clause |-> "excellent_visibility"]
          ELSE IF cloud > 80 THEN [clause |-> "flat_light"]
          ELSE [clause |-> "variable_visibility"]>>
        \o <<IF snow > 150 THEN [clause |-> "heavy_snowfall", cm10 |-> snow]
             ELSE IF snow > 50 THEN [clause |-> "fresh_snow", cm10 |-> snow]
             ELSE IF snow > 0 THEN [clause |-> "light_snow", cm10 |-> snow]
             ELSE [clause |-> "no_new_snow"]>>
        \o (IF wind > 25
            THEN <<[clause |-> "strong_winds", kmh |-> wind, dir |-> day.mountain.wind_dir]>>
            ELSE IF wind >= 15
            THEN <<[clause |-> "moderate_winds", kmh |-> wind, dir |-> day.mountain.wind_dir]>>
            ELSE <<>>)
        \o (IF high > 2 THEN <<[clause |-> "warm_temps"]>> ELSE <<>>)

gen_backcountry(day) ==
    LET cloud == day.avg_cloud
        snow == day.mountain.snow
        wind == day.mountain.wind_max
        high == day.mountain.high
    IN  <<IF cloud < 30 THEN [clause |-> "excellent_visibility"]
          ELSE IF cloud > 80 THEN [clause |-> "flat_light"]
          ELSE [clause |-> "variable_visibility"]>>
        \o <<IF snow > 150 THEN [clause |-> "heavy_snowfall", cm10 |-> snow]
             ELSE IF snow > 50 THEN [clause |-> "fresh_snow", cm10 |-> snow]
             ELSE IF snow > 0 THEN [clause |-> "light_snow", cm10 |-> snow]
             ELSE [clause |-> "no_new_snow"]>>
        \o (IF wind > 25
            THEN <<[clause |-> "strong_winds", kmh |-> wind, dir |-> day.mountain.wind_dir]>>
            ELSE IF wind > 15
            THEN <<[clause |-> "moderate_winds", kmh |-> wind, dir |-> day.mountain.wind_dir]>>
            ELSE <<>>)
        \o (IF high > 2 THEN <<[clause |-> "warm_temps"]>> ELSE <<>>)

Missing == "<missing>"

\* dr["ratings"].get(elev, {}).get("rating", {}).get("display", "?")
BandDisplay(ratings, elev) ==
    IF ratings[elev] = None \/ ratings[elev].display = Missing THEN "?"
    ELSE ratings[elev].display

\* The first dangerRatings entry whose date string starts with the date, 0 if none.
FirstRatingFor(dangerRatings, date_str) ==
    IF \E i \in DOMAIN dangerRatings : dangerRatings[i].date = Num(date_str)
    THEN CHOOSE i \in DOMAIN dangerRatings :
            /\ dangerRatings[i].date = Num(date_str)
            /\ \A j \in 1..(i - 1) : dangerRatings[j].date # Num(date_str)
    ELSE 0

\* The storm-slab, wind-slab and persistent-layer clauses of gen_avy_notes.
SnowpackClauses(day) ==
    LET snow == day.mountain.snow
        wind == day.mountain.wind_max
    IN  (IF snow > 100 THEN <<[clause |-> "storm_slab_natural"]>>
         ELSE IF snow > 30 THEN <<[clause |-> "storm_slab"]>>
         ELSE <<>>)
        \o (IF wind > 15 THEN <<[clause |-> "wind_slab", dir |-> day.mountain.wind_dir]>>
            ELSE <<>>)
        \o <<[clause |-> "persistent"]>>

\* avy_data.get("product", {}).get("report") if avy_data else None: the default {}
\* is used only for a missing key, and the adapter always sets the key, to None
\* when it has no product: None.get raises AttributeError.
gen_avy_notes(day, avy) ==
    IF Truthy(avy) /\ avy.product = None THEN Raise("AttributeError")
    ELSE LET report == IF Truthy(avy) THEN avy.product.report ELSE None
             i == IF Truthy(report) /\ report.dangerRatings # <<>>
                  THEN FirstRatingFor(report.dangerRatings, day.date) ELSE 0
         IN  Returns((IF i = 0 THEN <<>>
                      ELSE <<[clause |-> "rating",
                              alp |-> BandDisplay(report.dangerRatings[i].ratings, "alp"),
                              tln |-> BandDisplay(report.dangerRatings[i].ratings, "tln"),
                              btl |-> BandDisplay(report.dangerRatings[i].ratings, "btl")]>>)
                     \o SnowpackClauses(day))

\* Variant of gen_week_outlook: a day with wind of exactly 15 km/h is a best day.
gen_week_outlook_WindInclusive(ds) ==
    LET total_snow == SeqSum([i \in DOMAIN ds |-> ds[i].mountain.snow])
        clear_days == Cardinality({i \in DOMAIN ds : ds[i].avg_cloud < 40})
        snow_days == Cardinality({i \in DOMAIN ds : ds[i].mountain.snow > 10})
        temp_high == SeqMax([i \in DOMAIN ds |-> ds[i].mountain.high])
        temp_low == SeqMin([i \in DOMAIN ds |-> ds[i].mountain.low])
        bestDays == SelectSeq(ds, LAMBDA d : d.avg_cloud < 50 /\ d.mountain.wind_max <= 15)
        best == [i \in DOMAIN bestDays |-> bestDays[i].date_fmt]
    IN  <<[clause |-> "outlook", clear_days |-> clear_days, snow_days |-> snow_days],
          [clause |-> "temps", low |-> temp_low, high |-> temp_high]>>
        \o (IF total_snow > 0
            THEN <<[clause |-> "total_snow", cm |-> RoundHalfEven(total_snow, 10)]>>
            ELSE <<>>)
        \o (IF best # <<>> THEN <<[clause |-> "best", dates |-> best]>> ELSE <<>>)

gen_week_outlook(ds) ==
    LET total_snow == SeqSum([i \in DOMAIN ds |-> ds[i].mountain.snow])
        clear_days == Cardinality({i \in DOMAIN ds : ds[i].avg_cloud < 40})
        snow_days == Cardinality({i \in DOMAIN ds : ds[i].mountain.snow > 10})
        temp_high == SeqMax([i \in DOMAIN ds |-> ds[i].mountain.high])
        temp_low == SeqMin([i \in DOMAIN ds |-> ds[i].mountain.low])
        bestDays == SelectSeq(ds, LAMBDA d : d.avg_cloud < 50 /\ d.mountain.wind_max < 15)
        best == [i \in DOMAIN bestDays |-> bestDays[i].date_fmt]
    IN  <<[clause |-> "outlook", clear_days |-> clear_days, snow_days |-> snow_days],
          [clause |-> "temps", low |-> temp_low, high |-> temp_high]>>
        \o (IF total_snow > 0
            THEN <<[clause |-> "total_snow", cm |-> RoundHalfEven(total_snow, 10)]>>
            ELSE <<>>)
        \o (IF best # <<>> THEN <<[clause |-> "best", dates |-> best]>> ELSE <<>>)

fmt_metar(m) ==
    IF ~Truthy(m) THEN [metar |-> "METAR data unavailable."]
    ELSE [metar |-> "CYRV", report |-> m]

(***************************************************************************)
(* Avalanche formatting.                                                   *)
(***************************************************************************)
levels(val) ==
    CASE val = "low" -> 1 [] val = "moderate" -> 2 [] val = "considerable" -> 3
      [] val = "high" -> 4 [] val = "extreme" -> 5 [] OTHER -> 0

colors(name) ==
    CASE name = "low" -> "var(--green)"
      [] name = "moderate" -> "var(--danger-moderate)"
      [] name = "considerable" -> "var(--danger-considerable)"
      [] name = "high" -> "var(--danger-high)"
      [] name = "extreme" -> "var(--danger-high)"
      [] OTHER -> "var(--text-muted)"

\* f"{max_level} - {max_name.title()}"
FormatLabel(max_level, max_name) ==
    CASE max_level = 0 -> "0 - Low"
      [] max_name = "low" -> "1 - Low"
      [] max_name = "moderate" -> "2 - Moderate"
      [] max_name = "considerable" -> "3 - Considerable"
      [] max_name = "high" -> "4 - High"
      [] max_name = "extreme" -> "5 - Extreme"

\* today.get(elev, {}).get("rating", {}).get("value", "")
BandValue(today, elev) ==
    IF today[elev] = None \/ today[elev].value = Missing THEN "" ELSE today[elev].value

\* One pass of the loop over ("alp", "tln", "btl").
BannerStep(acc, val) ==
    IF levels(val) > acc.max_level
    THEN [max_level |-> levels(val), max_name |-> val]
    ELSE acc

UnknownBanner ==
    [level |-> [str |-> "?"], label |-> "Check avalanche.ca", color |-> "var(--text-muted)"]

avy_banner(avy) ==
    LET product == IF Truthy(avy) THEN avy.product ELSE None
        report == IF Truthy(product) THEN product.report ELSE None
    IN  IF ~Truthy(report) \/ report.dangerRatings = <<>> THEN UnknownBanner
        ELSE LET today == report.dangerRatings[1].ratings
                 a0 == [max_level |-> 0, max_name |-> "low"]
                 a1 == BannerStep(a0, BandValue(today, "alp"))
                 a2 == BannerStep(a1, BandValue(today, "tln"))
                 a3 == BannerStep(a2, BandValue(today, "btl"))
                 alpDisplay == IF today.alp = None THEN Missing ELSE today.alp.display
                 display == IF alpDisplay \in {Missing, ""}
                            THEN FormatLabel(a3.max_level, a3.max_name)
                            ELSE alpDisplay
             IN  [level |-> Num(a3.max_level), label |-> display,
                  color |-> colors(a3.max_name)]

(***************************************************************************)
(* Report generation.                                                      *)
(***************************************************************************)
DayNameChars ==
    <<<<"m","o","n","d","a","y">>, <<"t","u","e","s","d","a","y">>,
      <<"w","e","d","n","e","s","d","a","y">>, <<"t","h","u","r","s","d","a","y">>,
      <<"f","r","i","d","a","y">>, <<"s","a","t","u","r","d","a","y">>,
      <<"s","u","n","d","a","y">>>>

\* Variant of match_ec: the period label is not lower-cased.
match_ec_CaseSensitive(ec, date_str) ==
    IF ec = None \/ ec.forecasts = <<>> THEN <<>>
    ELSE LET day_name == DayNameChars[Weekday(date_str) + 1]
             hits == SelectSeq(ec.forecasts, LAMBDA f : Contains(f.period, day_name))
         IN  [i \in DOMAIN hits |-> hits[i].summary]

\* The matching summaries in feed order (the text is their join by " "); the
\* empty sequence stands for the None returned when nothing matches.  ec is
\* None or the parsed feed [forecasts |-> list].
match_ec(ec, date_str) ==
    IF ec = None \/ ec.forecasts = <<>> THEN <<>>
    ELSE LET day_name == DayNameChars[Weekday(date_str) + 1]
             hits == SelectSeq(ec.forecasts, LAMBDA f : Contains(Lower(f.period), day_name))
         IN  [i \in DOMAIN hits |-> hits[i].summary]

period_to_json(p) ==
    IF ~Truthy(p) THEN None
    ELSE [temp |-> p.temp_avg, wind |-> <<p.wind_max, p.wind_dir>>,
          snow |-> p.snow_total, sky |-> wmo_info(p.weather_code)[1]]

DefaultRegionName == <<"N","o","r","t","h"," ","C","o","l","u","m","b","i","a">>

\* region_name of generate_html: the report's title, else the region's product
\* title, else "North Columbia".
RegionName(avy) ==
    LET product == IF Truthy(avy) THEN avy.product ELSE None
        report == IF Truthy(product) THEN product.report ELSE None
        n1 == IF Truthy(product) /\ Truthy(report) THEN report.title ELSE <<>>
        n2 == IF n1 = <<>> /\ Truthy(avy) /\ Truthy(avy.region)
              THEN avy.region.title ELSE n1
    IN  IF n2 = <<>> THEN DefaultRegionName ELSE n2

\* not ec_text: match_ec returned None (no match), or the joined text is the
\* empty string, which " ".join gives for a single empty summary only.
EmptyText(ec_text) == ec_text = <<>> \/ ec_text = <<"">>

\* The valley text of a card.
ValleyText(d, ec) ==
    LET ec_text == match_ec(ec, d.date)
    IN  IF ~EmptyText(ec_text) THEN [text |-> "ec", summaries |-> ec_text]
        ELSE IF Truthy(d.valley)
        THEN [text |-> "valley", high |-> d.valley.high, low |-> d.valley.low,
              desc |-> wmo_info(d.valley.weather_code)[1]]
        ELSE [text |-> "No data"]

Card(d, i, metar_str, avy, ec) ==
    [date |-> d.date_fmt, dayOfWeek |-> d.day_of_week, icon |-> d.icon,
     mtHigh |-> d.mountain.high, mtLow |-> d.mountain.low,
     valHigh |-> IF Truthy(d.valley) THEN Num(d.valley.high) ELSE [str |-> "--"],
     valLow |-> IF Truthy(d.valley) THEN Num(d.valley.low) ELSE [str |-> "--"],
     snow |-> IF d.mountain.snow > 0 THEN Num(d.mountain.snow) ELSE [str |-> "None"],
     wind |-> IF d.mountain.wind_max < 5 THEN [str |-> "Calm"]
              ELSE [kmh |-> d.mountain.wind_max, dir |-> d.mountain.wind_dir],
     summary |-> gen_summary(d),
     freezing |-> d.freezing_level,
     am |-> period_to_json(d.am), pm |-> period_to_json(d.pm),
     night |-> period_to_json(d.night),
     valley |-> ValleyText(d, ec),
     metar |-> IF i = 1 THEN metar_str ELSE [metar |-> "check on the day"],
     backcountry |-> gen_backcountry(d),
     avyNote |-> gen_avy_notes(d, avy).value]

\* The page, or the exception that leaves generate_html.
generate_html(ds, m, avy, ec) ==
    LET product == IF Truthy(avy) THEN avy.product ELSE None
        report == IF Truthy(product) THEN product.report ELSE None
    IN  IF \E i \in DOMAIN ds : IsRaise(gen_avy_notes(ds[i], avy))
        THEN Raise("AttributeError")
        ELSE Returns([banner |-> avy_banner(avy),
                      outlook |-> gen_week_outlook(ds),
                      region_name |-> RegionName(avy),
                      avy_section |-> Truthy(report),
                      cards |-> [i \in DOMAIN ds |-> Card(ds[i], i, fmt_metar(m), avy, ec)]])

(***************************************************************************)
(* The providers' answers the model draws from.                            *)
(***************************************************************************)
TripDateSet == {trip_dates[i] : i \in DOMAIN trip_dates}

\* The elements of a set of integers in increasing order.
SortedSeq(S) ==
    CHOOSE s \in [1..Cardinality(S) -> S] :
        \A i, j \in 1..Cardinality(S) : i < j => s[i] < s[j]

\* Row of a daily series for date d; v picks one of three weather situations.
DailyRow(d, v) ==
    [time |-> d,
     temperature_2m_max |-> CASE v = 0 -> -52 + d [] v = 1 -> 46 + d [] OTHER -> -15,
     temperature_2m_min |-> CASE v = 0 -> -121 [] v = 1 -> -32 [] OTHER -> -85,
     precipitation_sum |-> CASE v = 0 -> 30 [] v = 1 -> 0 [] OTHER -> 124,
     snowfall_sum |-> CASE v = 0 -> 357 [] v = 1 -> 0 [] OTHER -> 1234,
     windspeed_10m_max |-> CASE v = 0 -> 312 [] v = 1 -> 102 [] OTHER -> 287,
     winddirection_10m_dominant |-> CASE v = 0 -> 270 [] v = 1 -> 350 [] OTHER -> 225,
     weathercode |-> CASE v = 0 -> 71 [] v = 1 -> 1 [] OTHER -> 73]

\* Hours of a date that the hourly series of situation v covers: all three
\* periods, or the morning of odd dates only.
HoursOf(d, v) ==
    CASE v = 1 -> <<7, 13, 20>>
      [] v = 2 -> IF d % 2 = 1 THEN <<9, 11>> ELSE <<>>
      [] OTHER -> <<8, 19>>

HourlyRow(d, h, v) ==
    [date |-> d, hour |-> h,
     temperature_2m |-> 5 * h - 60 - 20 * v,
     snowfall |-> IF v = 1 THEN 0 ELSE 40 + h,
     windspeed_10m |-> 100 + 7 * h * v,
     winddirection_10m |-> (25 * h) % 360,
     weathercode |-> IF v = 1 THEN (IF h > 12 THEN 3 ELSE 1) ELSE 73,
     cloudcover |-> (7 * h * (v + 1)) % 101]

RECURSIVE HourlyOf(_, _)
HourlyOf(ds, v) ==
    IF ds = <<>> THEN <<>>
    ELSE [i \in DOMAIN HoursOf(Head(ds), v) |-> HourlyRow(Head(ds), HoursOf(Head(ds), v)[i], v)]
         \o HourlyOf(Tail(ds), v)

\* An Open-Meteo payload holding the dates S.
Payload(S, v) ==
    [daily |-> [i \in 1..Cardinality(S) |-> DailyRow(SortedSeq(S)[i], v)],
     hourly |-> HourlyOf(SortedSeq(S), v)]

MountainAnswers ==
    {Raise("URLError")} \cup {Returns(Payload(S, v)) : S \in SUBSET TripDateSet, v \in {1, 2}}

ValleyAnswers ==
    {Raise("URLError"), Returns(Payload(TripDateSet, 0)), Returns(Payload({1}, 0))}

MetarReport == [reportTime |-> "2026-03-01T15:00", wspd |-> 8, wdir |-> 340]

\* The METAR endpoint answers with a list of reports.
MetarAnswers == {Raise("URLError"), Returns(<<>>), Returns(<<MetarReport>>)}

Band(v) == [value |-> v, display |-> FormatLabel(levels(v), v)]

SampleRatings ==
    <<[date |-> Num(1),
       ratings |-> [alp |-> Band("considerable"), tln |-> Band("moderate"), btl |-> Band("low")]],
      [date |-> Num(2),
       ratings |-> [alp |-> Band("high"), tln |-> Band("considerable"), btl |-> Band("moderate")]]>>

SampleProduct ==
    [report |-> [title |-> <<"N","o","r","t","h"," ","M","o","n","a","s","h","e","e","s">>,
                 dangerRatings |-> SampleRatings]]

SampleRegion(slug) ==
    [title |-> <<"N","o","r","t","h"," ","C","o","l","u","m","b","i","a">>,
     slug |-> slug, centroid |-> None]

\* What fetch_avalanche_canada can hand to main().
AvalancheAnswers ==
    {Raise("URLError"),
     Returns([region |-> None, product |-> None]),
     Returns([region |-> SampleRegion(None), product |-> None]),
     Returns([region |-> SampleRegion([str |-> "north-columbia"]), product |-> SampleProduct])}

SampleForecasts ==
  [forecasts |->
    <<[period |-> <<"S","u","n","d","a","y">>, summary |-> "Sunny."],
      [period |-> <<"S","u","n","d","a","y"," ","n","i","g","h","t">>, summary |-> "Clear."],
      [period |-> <<"T","u","e","s","d","a","y">>, summary |-> "Flurries."]>>]

TextForecastAnswers == {Raise("RuntimeError"), Returns(SampleForecasts)}

\* data.json: absent, not JSON, or the file an earlier run saved.  The records of
\* an earlier run are process_day's, made from the payloads of that time.
MissingFile == [file |-> "missing"]
CorruptFile == [file |-> "corrupt"]
OldDates == {0} \cup TripDateSet
OldRecord(d) == process_day(d, Payload(OldDates, 0), Payload(OldDates, 0))
CacheFiles ==
    {MissingFile, CorruptFile}
    \cup {[days |-> [d \in S |-> OldRecord(d)], lastUpdated |-> "earlier", metar |-> None] :
            S \in SUBSET OldDates}

(***************************************************************************)
(* Persistence.                                                            *)
(***************************************************************************)
\* load_previous: the parsed file, {"days": {}} when it is missing or unparseable.
load_previous(file) ==
    IF file \in {MissingFile, CorruptFile} THEN [days |-> <<>>] ELSE file

\* Variant of save_data: only the entries of the trip window are written.
save_data_TripWindow(data) ==
    [data EXCEPT !.days = [d \in (DOMAIN data.days) \cap TripDateSet |-> data.days[d]]]

\* save_data: json.dump of dicts with string keys holding numbers, strings, None
\* and nested dicts writes a text that json.load reads back as the same dicts,
\* so the file is represented by the data it holds.
save_data(data) == data

(***************************************************************************)
(* main().                                                                 *)
(***************************************************************************)
\* safe_fetch: the adapter's result and the line printed; an exception becomes None.
safe_fetch(name, answer) ==
    IF IsRaise(answer) THEN [result |-> None, notice |-> [kind |-> "fail", name |-> name]]
    ELSE [result |-> answer.value, notice |-> [kind |-> "ok", name |-> name]]

\* fetch_metar: data[0] if data else None, or the exception of fetch_json.
fetch_metar(answer) ==
    IF IsRaise(answer) THEN answer
    ELSE IF answer.value # <<>> THEN Returns(answer.value[1]) ELSE Returns(None)

\* previous["days"][date_str] = day
SetDay(prev, date_str, day) ==
    [prev EXCEPT !.days = (date_str :> day) @@ prev.days]

\* Variant of ValleyFallback: no substitution, a failed valley fetch stays absent.
ValleyFallback_Absent(val, mtn) == val

\* if not val_data: val_data = mtn_data
ValleyFallback(val, mtn) == IF ~Truthy(val) THEN mtn ELSE val

\* if not mtn_data
MountainUnavailable(m) == ~Truthy(m)

\* Variant of NoForecast: the empty day sequence is not noticed.
NoForecast_Ignored(ds) == FALSE

\* if not days
NoForecast(ds) == ds = <<>>

\* Variant of MainLoopStep: the elif branch is missing, a date without fresh data
\* is dropped although the cache holds it.
MainLoopStep_NoFallback(date_str, mtn, val, prev, ds) ==
    LET day == process_day(date_str, mtn, val)
    IN  IF Truthy(day)
        THEN [previous |-> SetDay(prev, date_str, day), days |-> Append(ds, day),
              notices |-> <<>>, ops |-> <<[op |-> "assign", date |-> date_str]>>]
        ELSE [previous |-> prev, days |-> ds,
              notices |-> <<[kind |-> "nodata", date |-> date_str]>>, ops |-> <<>>]

\* Variant of MainLoopStep: the cache is consulted first, a cached record wins
\* over fresh data.
MainLoopStep_CacheFirst(date_str, mtn, val, prev, ds) ==
    LET day == process_day(date_str, mtn, val)
    IN  IF date_str \in DOMAIN prev.days
        THEN [previous |-> prev, days |-> Append(ds, prev.days[date_str]),
              notices |-> <<[kind |-> "cached", date |-> date_str]>>, ops |-> <<>>]
        ELSE IF Truthy(day)
        THEN [previous |-> SetDay(prev, date_str, day), days |-> Append(ds, day),
              notices |-> <<>>, ops |-> <<[op |-> "assign", date |-> date_str]>>]
        ELSE [previous |-> prev, days |-> ds,
              notices |-> <<[kind |-> "nodata", date |-> date_str]>>, ops |-> <<>>]

\* Variant of MainLoopStep: the cache entry is assigned outside the if, so a date
\* without any data leaves a None entry in the cache.
MainLoopStep_CachesGap(date_str, mtn, val, prev, ds) ==
    LET day == process_day(date_str, mtn, val)
    IN  IF Truthy(day)
        THEN [previous |-> SetDay(prev, date_str, day), days |-> Append(ds, day),
              notices |-> <<>>, ops |-> <<[op |-> "assign", date |-> date_str]>>]
        ELSE IF date_str \in DOMAIN prev.days
        THEN [previous |-> prev, days |-> Append(ds, prev.days[date_str]),
              notices |-> <<[kind |-> "cached", date |-> date_str]>>, ops |-> <<>>]
        ELSE [previous |-> SetDay(prev, date_str, None), days |-> ds,
              notices |-> <<[kind |-> "nodata", date |-> date_str]>>,
              ops |-> <<[op |-> "assign", date |-> date_str]>>]

\* Variant of MainLoopStep: the cache entry of a fresh date is first cleared and
\* then set, two assignments to one entry in a run.
MainLoopStep_AssignsTwice(date_str, mtn, val, prev, ds) ==
    LET day == process_day(date_str, mtn, val)
    IN  IF Truthy(day)
        THEN [previous |-> SetDay(prev, date_str, day), days |-> Append(ds, day),
              notices |-> <<>>,
              ops |-> <<[op |-> "assign", date |-> date_str],
                        [op |-> "assign", date |-> date_str]>>]
        ELSE IF date_str \in DOMAIN prev.days
        THEN [previous |-> prev, days |-> Append(ds, prev.days[date_str]),
              notices |-> <<[kind |-> "cached", date |-> date_str]>>, ops |-> <<>>]
        ELSE [previous |-> prev, days |-> ds,
              notices |-> <<[kind |-> "nodata", date |-> date_str]>>, ops |-> <<>>]

\* One pass of the loop over the trip dates: the cache dict, the day sequence,
\* the lines printed and the assignments made to cache entries.
MainLoopStep(date_str, mtn, val, prev, ds) ==
    LET day == process_day(date_str, mtn, val)
    IN  IF Truthy(day)
        THEN [previous |-> SetDay(prev, date_str, day), days |-> Append(ds, day),
              notices |-> <<>>, ops |-> <<[op |-> "assign", date |-> date_str]>>]
        ELSE IF date_str \in DOMAIN prev.days
        THEN [previous |-> prev, days |-> Append(ds, prev.days[date_str]),
              notices |-> <<[kind |-> "cached", date |-> date_str]>>, ops |-> <<>>]
        ELSE [previous |-> prev, days |-> ds,
              notices |-> <<[kind |-> "nodata", date |-> date_str]>>, ops |-> <<>>]

Fetch(at, next, adapter, name, answer) ==
    /\ pc = at
    /\ pc' = next
    /\ fetched' = Append(fetched, adapter)
    /\ notices' = Append(notices, safe_fetch(name, answer).notice)

FetchMountain ==
    /\ Fetch("fetch_mountain", "fetch_valley", "mountain", "Open-Meteo (mountain)",
             upstream.mountain)
    /\ mtn_data' = safe_fetch("Open-Meteo (mountain)", upstream.mountain).result
    /\ UNCHANGED <<upstream, cacheFile, reportFile, val_data, metar, avy_data,
                   ec_forecasts, previous, days, dateIdx, exitStatus, written,
                   loaded, cacheOps, lastRun, ecVars, avVars, fnVars, callVars>>

FetchValley ==
    /\ Fetch("fetch_valley", "fetch_metar", "valley", "Open-Meteo (valley)",
             upstream.valley)
    /\ val_data' = safe_fetch("Open-Meteo (valley)", upstream.valley).result
    /\ UNCHANGED <<upstream, cacheFile, reportFile, mtn_data, metar, avy_data,
                   ec_forecasts, previous, days, dateIdx, exitStatus, written,
                   loaded, cacheOps, lastRun, ecVars, avVars, fnVars, callVars>>

FetchMetar ==
    /\ Fetch("fetch_metar", "fetch_avalanche", "observation", "CYRV METAR",
             fetch_metar(upstream.observation))
    /\ metar' = safe_fetch("CYRV METAR", fetch_metar(upstream.observation)).result
    /\ UNCHANGED <<upstream, cacheFile, reportFile, mtn_data, val_data, avy_data,
                   ec_forecasts, previous, days, dateIdx, exitStatus, written,
                   loaded, cacheOps, lastRun, ecVars, avVars, fnVars, callVars>>

FetchAvalanche ==
    /\ Fetch("fetch_avalanche", "fetch_ec", "avalanche", "Avalanche Canada",
             upstream.avalanche)
    /\ avy_data' = safe_fetch("Avalanche Canada", upstream.avalanche).result
    /\ UNCHANGED <<upstream, cacheFile, reportFile, mtn_data, val_data, metar,
                   ec_forecasts, previous, days, dateIdx, exitStatus, written,
                   loaded, cacheOps, lastRun, ecVars, avVars, fnVars, callVars>>

FetchTextForecast ==
    /\ Fetch("fetch_ec", "check_mountain", "text-forecast", "Environment Canada",
             upstream.text)
    /\ ec_forecasts' = safe_fetch("Environment Canada", upstream.text).result
    /\ UNCHANGED <<upstream, cacheFile, reportFile, mtn_data, val_data, metar,
                   avy_data, previous, days, dateIdx, exitStatus, written,
                   loaded, cacheOps, lastRun, ecVars, avVars, fnVars, callVars>>

\* if not mtn_data: sys.exit(1)
MountainMissing ==
    /\ pc = "check_mountain"
    /\ MountainUnavailable(mtn_data)
    /\ pc' = "exited"
    /\ exitStatus' = Num(1)
    /\ UNCHANGED <<upstream, cacheFile, reportFile, mtn_data, val_data, metar,
                   avy_data, ec_forecasts, previous, days, dateIdx, notices,
                   fetched, written, loaded, cacheOps, lastRun, ecVars, avVars, fnVars, callVars>>

\* if not val_data: val_data = mtn_data; dates, previous, days are set up.
StartAggregation ==
    /\ pc = "check_mountain"
    /\ ~MountainUnavailable(mtn_data)
    /\ val_data' = ValleyFallback(val_data, mtn_data)
    /\ previous' = load_previous(cacheFile)
    /\ loaded' = load_previous(cacheFile)
    /\ cacheOps' = Append(cacheOps, [op |-> "load"])
    /\ days' = <<>>
    /\ dateIdx' = 1
    /\ pc' = "loop"
    /\ UNCHANGED <<upstream, cacheFile, reportFile, mtn_data, metar, avy_data,
                   ec_forecasts, notices, fetched, exitStatus, written, lastRun,
                   ecVars, avVars, fnVars, callVars>>

ProcessDate ==
    /\ pc = "loop"
    /\ dateIdx <= Len(trip_dates)
    /\ LET r == MainLoopStep(trip_dates[dateIdx], mtn_data, val_data, previous, days)
       IN  /\ previous' = r.previous
           /\ days' = r.days
           /\ notices' = notices \o r.notices
           /\ cacheOps' = cacheOps \o r.ops
    /\ dateIdx' = dateIdx + 1
    /\ UNCHANGED <<pc, upstream, cacheFile, reportFile, mtn_data, val_data, metar,
                   avy_data, ec_forecasts, fetched, exitStatus, written, loaded,
                   lastRun, ecVars, avVars, fnVars, callVars>>

\* if not days: sys.exit(1)
NoDays ==
    /\ pc = "loop"
    /\ dateIdx > Len(trip_dates)
    /\ NoForecast(days)
    /\ pc' = "exited"
    /\ exitStatus' = Num(1)
    /\ UNCHANGED <<upstream, cacheFile, reportFile, mtn_data, val_data, metar,
                   avy_data, ec_forecasts, previous, days, dateIdx, notices,
                   fetched, written, loaded, cacheOps, lastRun, ecVars, avVars, fnVars, callVars>>

\* previous gets lastUpdated and metar and is saved.
SaveCache ==
    /\ pc = "loop"
    /\ dateIdx > Len(trip_dates)
    /\ ~NoForecast(days)
    /\ previous' = [days |-> previous.days, lastUpdated |-> "now", metar |-> metar]
    /\ cacheFile' = save_data(previous')
    /\ written' = Append(written, "cache")
    /\ cacheOps' = Append(cacheOps, [op |-> "save"])
    /\ pc' = "generate"
    /\ UNCHANGED <<upstream, reportFile, mtn_data, val_data, metar, avy_data,
                   ec_forecasts, days, dateIdx, notices, fetched, exitStatus,
                   loaded, lastRun, ecVars, avVars, fnVars, callVars>>

\* generate_html raises: the exception leaves main() and the interpreter exits 1.
ReportFails ==
    /\ pc = "generate"
    /\ IsRaise(generate_html(days, metar, avy_data, ec_forecasts))
    /\ pc' = "crashed"
    /\ exitStatus' = Num(1)
    /\ UNCHANGED <<upstream, cacheFile, reportFile, mtn_data, val_data, metar,
                   avy_data, ec_forecasts, previous, days, dateIdx, notices,
                   fetched, written, loaded, cacheOps, lastRun, ecVars, avVars, fnVars, callVars>>

WriteReport ==
    /\ pc = "generate"
    /\ ~IsRaise(generate_html(days, metar, avy_data, ec_forecasts))
    /\ reportFile' = generate_html(days, metar, avy_data, ec_forecasts).value
    /\ written' = Append(written, "report")
    /\ pc' = "done"
    /\ exitStatus' = Num(0)
    /\ UNCHANGED <<upstream, cacheFile, mtn_data, val_data, metar, avy_data,
                   ec_forecasts, previous, days, dateIdx, notices, fetched,
                   loaded, cacheOps, lastRun, ecVars, avVars, fnVars, callVars>>

Ended == pc \in {"done", "exited", "crashed"}

\* The script is run again; the providers answer as before.
RunAgain ==
    /\ Ended
    /\ lastRun' = [days |-> days, saved |-> ("cache" \in {written[i] : i \in DOMAIN written}),
                   cacheDays |-> previous.days, exitStatus |-> exitStatus]
    /\ pc' = "fetch_mountain"
    /\ mtn_data' = None /\ val_data' = None /\ metar' = None /\ avy_data' = None
    /\ ec_forecasts' = None
    /\ previous' = [days |-> <<>>] /\ loaded' = [days |-> <<>>]
    /\ days' = <<>> /\ dateIdx' = 1
    /\ notices' = <<>> /\ fetched' = <<>> /\ written' = <<>>
    /\ exitStatus' = None /\ cacheOps' = <<>>
    /\ UNCHANGED <<upstream, cacheFile, reportFile, ecVars, avVars, fnVars, callVars>>

NoFile == [file |-> "missing"]

IdleEc ==
    /\ ec_pc = "idle" /\ ec_env = <<>> /\ ec_now = 0 /\ ec_offset = 0
    /\ ec_probes = <<>> /\ ec_result = None
IdleAv ==
    /\ av_pc = "idle" /\ av_env = None /\ av_region = None
    /\ av_requests = <<>> /\ av_result = None
IdleFn ==
    /\ fn_pc = "idle" /\ fn_avy = None /\ fn_day = None /\ fn_banner = None
    /\ fn_notes = None /\ fn_page = None
IdleCall == call_fn = "none" /\ call_arg = None /\ call_out = None
IdleMain ==
    /\ pc = "idle" /\ upstream = None /\ cacheFile = NoFile /\ reportFile = NoFile
    /\ mtn_data = None /\ val_data = None /\ metar = None /\ avy_data = None
    /\ ec_forecasts = None /\ previous = None /\ days = <<>> /\ dateIdx = 0
    /\ notices = <<>> /\ fetched = <<>> /\ exitStatus = None /\ written = <<>>
    /\ loaded = None /\ cacheOps = <<>> /\ lastRun = None

Init ==
    /\ pc = "fetch_mountain"
    /\ upstream \in [mountain : MountainAnswers, valley : ValleyAnswers,
                     observation : MetarAnswers, avalanche : AvalancheAnswers,
                     text : TextForecastAnswers]
    /\ cacheFile \in CacheFiles
    /\ reportFile = NoFile
    /\ mtn_data = None /\ val_data = None /\ metar = None /\ avy_data = None
    /\ ec_forecasts = None
    /\ previous = [days |-> <<>>] /\ loaded = [days |-> <<>>]
    /\ days = <<>> /\ dateIdx = 1
    /\ notices = <<>> /\ fetched = <<>> /\ written = <<>>
    /\ exitStatus = None /\ cacheOps = <<>>
    /\ lastRun = None
    /\ IdleEc /\ IdleAv /\ IdleFn /\ IdleCall

Next ==
    \/ FetchMountain \/ FetchValley \/ FetchMetar \/ FetchAvalanche
    \/ FetchTextForecast
    \/ MountainMissing \/ StartAggregation
    \/ ProcessDate \/ NoDays \/ SaveCache
    \/ ReportFails \/ WriteReport
    \/ RunAgain

Spec == Init /\ [][Next]_vars

(***************************************************************************)
(* Properties of main().                                                   *)
(***************************************************************************)
FetchPositions ==
    {"fetch_mountain", "fetch_valley", "fetch_metar", "fetch_avalanche", "fetch_ec"}

\* The trip dates the loop has been through in this run.
ProcessedDates == {trip_dates[i] : i \in 1..(dateIdx - 1)}

\* The loop over the trip dates has ended in this run.
LoopDone == dateIdx > Len(trip_dates)

InSeries(payload, d) == \E i \in DOMAIN payload.daily : payload.daily[i].time = d

\* Positions of days holding a record of date d.
PositionsOf(d) == {k \in DOMAIN days : days[k].date = d}

NoticeCount(n) == Cardinality({i \in DOMAIN notices : notices[i] = n})

\* The mountain fetch has been made and safe_fetch yielded absence.
MountainFailed == fetched # <<>> /\ mtn_data = None

\* Every trip date has been processed, with cache fallback, and no record came out.
NoDatesProduced == LoopDone /\ days = <<>>

\* C1: when the mountain fetch fails, or the day sequence is empty after every
\* trip date has been processed with cache fallback, the run goes nowhere but to
\* exit status 1, and in that run neither the cache nor the report is written.
C1_FatalExit ==
    (MountainFailed \/ NoDatesProduced) =>
        /\ written = <<>>
        /\ pc \in FetchPositions \cup {"check_mountain", "loop", "exited"}
        /\ (MountainFailed => pc # "loop")
        /\ (pc = "exited" => exitStatus = Num(1))
        /\ (pc = "check_mountain" => ENABLED MountainMissing /\ ~ENABLED StartAggregation)
        /\ (pc = "loop" => ENABLED NoDays /\ ~ENABLED SaveCache /\ ~ENABLED ProcessDate)

\* A run that exited because no trip date yielded a record although the mountain
\* payload arrived and the cache held records (of dates outside the series).
C1_Witness ==
    /\ pc = "exited" /\ Truthy(mtn_data) /\ NoDatesProduced
    /\ loaded.days # <<>>
    /\ "fail" \in {notices[i].kind : i \in DOMAIN notices}

DegradedAdapters ==
    [valley |-> "Open-Meteo (valley)", observation |-> "CYRV METAR",
     avalanche |-> "Avalanche Canada", text |-> "Environment Canada"]

\* The value main() holds for a degraded adapter.
LocalOf(a) ==
    CASE a = "valley" -> val_data [] a = "observation" -> metar
      [] a = "avalanche" -> avy_data [] a = "text" -> ec_forecasts

\* C2 (as claimed): a failure of the valley, observation, avalanche or
\* text-forecast fetch becomes an absent result with one notice; the five fetches
\* are made exactly once in the order mountain, valley, observation, avalanche,
\* text-forecast; and whenever the mountain fetch succeeded and a trip date
\* yielded a record, the run completes with the cache and the report written.
C2_DegradedNeverStops ==
    /\ (pc \notin FetchPositions) =>
          fetched = <<"mountain", "valley", "observation", "avalanche", "text-forecast">>
    /\ (pc = "check_mountain") =>
          \A a \in DOMAIN DegradedAdapters :
             IsRaise(upstream[a]) =>
                /\ LocalOf(a) = None
                /\ NoticeCount([kind |-> "fail", name |-> DegradedAdapters[a]]) = 1
    /\ (Ended /\ Truthy(mtn_data) /\ days # <<>>) =>
          pc = "done" /\ exitStatus = Num(0) /\ written = <<"cache", "report">>

\* C3: a trip date missing from the mountain series comes out as the loaded
\* cache's record of that date, unchanged, when the cache holds one; otherwise
\* it contributes nothing but one notice, and the later dates are still
\* processed.  The day sequence is ordered by trip date, one record per date at
\* most.
C3_CacheFallback ==
    /\ \A d \in ProcessedDates :
          ~InSeries(mtn_data, d) =>
             IF d \in DOMAIN loaded.days
             THEN /\ \E k \in DOMAIN days : days[k] = loaded.days[d]
                  /\ Cardinality(PositionsOf(d)) = 1
                  /\ NoticeCount([kind |-> "cached", date |-> d]) = 1
             ELSE /\ PositionsOf(d) = {}
                  /\ NoticeCount([kind |-> "nodata", date |-> d]) = 1
    /\ (pc \in {"generate", "done", "crashed"} \/ (pc = "exited" /\ Truthy(mtn_data)))
          => LoopDone
    /\ \A i, j \in DOMAIN days : i < j => days[i].date < days[j].date
    /\ \A k \in DOMAIN days : days[k].date \in ProcessedDates

\* All dates processed; an early date had neither fresh nor cached data, a later
\* one was served from the cache.
C3_Witness ==
    /\ LoopDone /\ pc = "done"
    /\ \E d1, d2 \in TripDateSet :
          /\ d1 < d2
          /\ ~InSeries(mtn_data, d1) /\ d1 \notin DOMAIN loaded.days
          /\ ~InSeries(mtn_data, d2) /\ d2 \in DOMAIN loaded.days
          /\ \E k \in DOMAIN days : days[k] = loaded.days[d2]

\* The row of the mountain daily series for date d.
SeriesRow(d) ==
    mtn_data.daily[CHOOSE i \in DOMAIN mtn_data.daily : mtn_data.daily[i].time = d]

\* C4: a trip date that the mountain series contains has exactly one record in
\* the day sequence; its mountain stats are present and are those of the fresh
\* series; the record is the freshly computed one also when the cache held the
\* date, and it replaces the cache entry of that date, in memory and in the
\* file once saved.
C4_FreshRecord ==
    \A d \in ProcessedDates :
       InSeries(mtn_data, d) =>
          /\ Cardinality(PositionsOf(d)) = 1
          /\ \A k \in PositionsOf(d) :
                /\ days[k].mountain # None
                /\ days[k].mountain = MountainStats(SeriesRow(d))
                /\ days[k] = process_day(d, mtn_data, val_data)
                /\ d \in DOMAIN previous.days /\ previous.days[d] = days[k]
                /\ ("cache" \in {written[i] : i \in DOMAIN written})
                      => cacheFile.days[d] = days[k]

\* A finished run in which a date had fresh data while the loaded cache held an
\* older, different record of it.
C4_Witness ==
    /\ pc = "done"
    /\ \E d \in TripDateSet :
          /\ InSeries(mtn_data, d)
          /\ d \in DOMAIN loaded.days
          /\ loaded.days[d] # process_day(d, mtn_data, val_data)
          /\ cacheFile.days[d] = process_day(d, mtn_data, val_data)

\* C10: a run that starts from the cache the previous run saved, with the
\* providers answering as before, produces the same day sequence as that run and
\* leaves the date-to-record mapping as that run wrote it.
C10_Idempotent ==
    (lastRun # None /\ lastRun.saved /\ LoopDone) =>
        /\ days = lastRun.days
        /\ previous.days = lastRun.cacheDays
        /\ cacheFile.days = lastRun.cacheDays

\* The second run has finished; it had a fresh date, a date taken from the
\* cache and a date without data.
C10_Witness ==
    /\ lastRun # None /\ lastRun.saved /\ pc = "done"
    /\ \E d \in TripDateSet : InSeries(mtn_data, d)
    /\ \E d \in TripDateSet : ~InSeries(mtn_data, d)
    /\ "cache" \in {written[i] : i \in DOMAIN written}

\* Positions of cacheOps holding operation o.
OpsOf(o) == {i \in DOMAIN cacheOps : cacheOps[i].op = o}

\* Loads after the first operation, assignments, saves and file writes of a run
\* are in order: assignments of distinct trip dates, then at most one save, which
\* comes after the whole loop and before the report.
CacheOpsOrdered ==
    /\ \A i \in OpsOf("load") : i = 1
    /\ \A i, j \in OpsOf("assign") :
          /\ cacheOps[i].date \in ProcessedDates
          /\ (i # j) => cacheOps[i].date # cacheOps[j].date
    /\ Cardinality(OpsOf("save")) <= 1
    /\ \A i \in OpsOf("save") : i = Len(cacheOps) /\ LoopDone /\ OpsOf("load") = {1}
    /\ written \in {<<>>, <<"cache">>, <<"cache", "report">>}
    /\ (written # <<>>) <=> (OpsOf("save") # {})
    /\ (dateIdx > 1 /\ pc # "idle") => OpsOf("load") = {1}

\* C11 (as claimed): in every run the cache is loaded exactly once, before any
\* trip date is processed, and written at most once, after all trip dates, the
\* write before the report; no date's cache entry is assigned twice in a run.
C11_EveryRunLoadsOnce ==
    /\ CacheOpsOrdered
    /\ Ended => Cardinality(OpsOf("load")) = 1

\* C11 (amended): the same, the load being made exactly once in every run that
\* goes past the mountain check, and not at all in a run that stops there.
C11_CacheDiscipline ==
    /\ CacheOpsOrdered
    /\ (pc \in FetchPositions \cup {"check_mountain"}) => cacheOps = <<>>
    /\ (pc \in {"loop", "generate", "done", "crashed"}) => Cardinality(OpsOf("load")) = 1
    /\ (pc = "exited") =>
          Cardinality(OpsOf("load")) = (IF MountainUnavailable(mtn_data) THEN 0 ELSE 1)

\* A finished run that loaded the cache, assigned the entries of two dates and
\* saved it before writing the report.
C11_Witness ==
    /\ pc = "done"
    /\ written = <<"cache", "report">>
    /\ Len(cacheOps) >= 4
    /\ cacheOps[1] = [op |-> "load"]
    /\ cacheOps[Len(cacheOps)] = [op |-> "save"]
    /\ Cardinality(OpsOf("assign")) >= 2

\* C12: when the valley fetch failed, the mountain payload stands in for the
\* valley payload and every fresh record has valley stats with the high, low,
\* snow and weather code of its mountain stats; when a valley payload arrived
\* whose daily series lacks the date, the record is produced with valley absent.
C12_ValleyDegradation ==
    /\ (IsRaise(upstream.valley) /\ pc \in {"loop", "generate", "done", "crashed", "exited"}
        /\ Truthy(mtn_data)) => val_data = mtn_data
    /\ \A d \in ProcessedDates :
          InSeries(mtn_data, d) =>
             /\ Cardinality(PositionsOf(d)) = 1
             /\ \A k \in PositionsOf(d) :
                   /\ IsRaise(upstream.valley) =>
                         /\ days[k].valley # None
                         /\ days[k].valley.high = days[k].mountain.high
                         /\ days[k].valley.low = days[k].mountain.low
                         /\ days[k].valley.snow = days[k].mountain.snow
                         /\ days[k].valley.weather_code = days[k].mountain.weather_code
                   /\ (~IsRaise(upstream.valley) /\ ~InSeries(upstream.valley.value, d)) =>
                         days[k].valley = None

\* A finished run whose valley fetch failed and that computed a fresh record,
\* with valley stats, for every trip date.
C12_Witness ==
    /\ pc = "done"
    /\ IsRaise(upstream.valley)
    /\ Len(days) = Len(trip_dates)
    /\ \A k \in DOMAIN days : InSeries(mtn_data, days[k].date) /\ days[k].valley # None

\* C20: once the cache is written in a run, every entry that was loaded is still
\* in the file, changed only if it is of a trip date computed fresh in this run;
\* the file has no other new entry than those of fresh trip dates, so a date
\* dropped for lack of data gains none.  A missing or unparseable file is loaded
\* as the empty mapping and the run goes on.
C20_CacheFrame ==
    /\ (OpsOf("save") # {}) =>
          /\ \A d \in DOMAIN loaded.days :
                /\ d \in DOMAIN cacheFile.days
                /\ (cacheFile.days[d] # loaded.days[d]) =>
                      d \in TripDateSet /\ InSeries(mtn_data, d)
          /\ \A d \in DOMAIN cacheFile.days :
                (d \notin DOMAIN loaded.days) => d \in TripDateSet /\ InSeries(mtn_data, d)
          /\ \A d \in TripDateSet :
                (~InSeries(mtn_data, d) /\ d \notin DOMAIN loaded.days)
                   => d \notin DOMAIN cacheFile.days
    /\ (OpsOf("load") # {} /\ cacheFile \in {MissingFile, CorruptFile}) =>
          /\ loaded = [days |-> <<>>]
          /\ pc \in {"loop", "exited"}
          /\ (pc = "exited") => NoDatesProduced

\* A finished run that loaded an entry of a date before the trip window and an
\* older entry of a trip date, computed that trip date fresh and dropped another
\* one.
C20_Witness ==
    /\ pc = "done" /\ OpsOf("save") # {}
    /\ 0 \in DOMAIN loaded.days /\ cacheFile.days[0] = loaded.days[0]
    /\ \E d \in TripDateSet :
          /\ d \in DOMAIN loaded.days /\ InSeries(mtn_data, d)
          /\ cacheFile.days[d] # loaded.days[d]
    /\ \E d \in TripDateSet :
          ~InSeries(mtn_data, d) /\ d \notin DOMAIN loaded.days /\ d \notin DOMAIN cacheFile.days

(***************************************************************************)
(* fetch_environment_canada(): the backward scan of the hour buckets.      *)
(***************************************************************************)
ProbeCount == 6

\* Variant of ProbeHour: the scan walks forward in time.
ProbeHour_Forward(now_hour, offset) == (now_hour + offset) % 24

\* h = (now.hour - offset) % 24
ProbeHour(now_hour, offset) == (now_hour - offset) % 24

\* The station document of hour bucket h: <forecast> blocks, one of them
\* without a <textSummary>.
XmlDoc(h) ==
    <<[textForecastName |-> <<"T","o","n","i","g","h","t">>,
       textSummary |-> [str |-> "Issued in hour", hour |-> h],
       temperature |-> Num(-4), class |-> [str |-> "low"]],
      [textForecastName |-> <<"S","u","n","d","a","y">>,
       textSummary |-> None, temperature |-> None, class |-> None],
      [textForecastName |-> <<"M","o","n","d","a","y">>,
       textSummary |-> [str |-> "Flurries"], temperature |-> None, class |-> None]>>

\* parse_ec_xml: one entry per <forecast> block that has a <textSummary>.
parse_ec_xml(xml_text) ==
    LET blocks == SelectSeq(xml_text, LAMBDA b : b.textSummary # None)
    IN  [forecasts |->
           [i \in DOMAIN blocks |->
              [period |-> blocks[i].textForecastName, summary |-> blocks[i].textSummary,
               temp |-> blocks[i].temperature, temp_class |-> blocks[i].class]]]

\* What a bucket holds: its listing cannot be fetched, its listing has no link to
\* the station file, the station file cannot be fetched, or both can.
BucketStates == {"listing_fails", "no_link", "document_fails", "ok"}

\* Requests one pass of the loop sends for hour h.
ProbeRequests(h, bucket) ==
    IF bucket \in {"listing_fails", "no_link"}
    THEN <<[get |-> "listing", hour |-> h]>>
    ELSE <<[get |-> "listing", hour |-> h], [get |-> "document", hour |-> h]>>

\* One pass of the loop that does not return: continue.
EcProbeFails ==
    /\ ec_pc = "scan"
    /\ ec_offset < ProbeCount
    /\ ec_env[ProbeHour(ec_now, ec_offset)] # "ok"
    /\ ec_probes' = ec_probes \o ProbeRequests(ProbeHour(ec_now, ec_offset),
                                               ec_env[ProbeHour(ec_now, ec_offset)])
    /\ ec_offset' = ec_offset + 1
    /\ UNCHANGED <<ec_pc, ec_env, ec_now, ec_result, mainVars, avVars, fnVars, callVars>>

\* The pass that fetches and parses the station document: return.
EcProbeSucceeds ==
    /\ ec_pc = "scan"
    /\ ec_offset < ProbeCount
    /\ ec_env[ProbeHour(ec_now, ec_offset)] = "ok"
    /\ ec_probes' = ec_probes \o ProbeRequests(ProbeHour(ec_now, ec_offset), "ok")
    /\ ec_result' = Returns(parse_ec_xml(XmlDoc(ProbeHour(ec_now, ec_offset))))
    /\ ec_pc' = "returned"
    /\ UNCHANGED <<ec_env, ec_now, ec_offset, mainVars, avVars, fnVars, callVars>>

\* raise RuntimeError("Environment Canada data unavailable")
EcUnavailable ==
    /\ ec_pc = "scan"
    /\ ec_offset >= ProbeCount
    /\ ec_result' = Raise("RuntimeError")
    /\ ec_pc' = "raised"
    /\ UNCHANGED <<ec_env, ec_now, ec_offset, ec_probes, mainVars, avVars, fnVars, callVars>>

NowHours == {0, 3, 14, 23}

InitEC ==
    /\ ec_pc = "scan"
    /\ ec_now \in NowHours
    /\ \E f \in [{ProbeHour(ec_now, k) : k \in 0..(ProbeCount - 1)} -> BucketStates] :
          \* buckets the scan never asks for do not matter; they are left empty
          ec_env = [h \in 0..23 |-> IF h \in DOMAIN f THEN f[h] ELSE "listing_fails"]
    /\ ec_offset = 0
    /\ ec_probes = <<>>
    /\ ec_result = None
    /\ IdleMain /\ IdleAv /\ IdleFn /\ IdleCall

NextEC == EcProbeFails \/ EcProbeSucceeds \/ EcUnavailable

SpecEC == InitEC /\ [][NextEC]_vars

(***************************************************************************)
(* Properties of fetch_environment_canada().                               *)
(***************************************************************************)
\* The directory listings requested so far, in request order.
ListingsProbed == SelectSeq(ec_probes, LAMBDA r : r.get = "listing")

\* The hour bucket at offset k behind the current UTC hour.
HourBehind(k) == (ec_now + 24 - k) % 24

\* Offsets whose bucket yields a fetched and parsed station document.
GoodOffsets == {k \in 0..5 : ec_env[HourBehind(k)] = "ok"}

\* C8: the buckets are probed in the order of offsets 0, 1, ..., 5 behind the
\* current hour; no bucket is probed after one succeeded; the value returned is
\* the parsed document of the first good bucket; the error is raised only after
\* all six failed.
C8_ProbeOrder ==
    LET L == ListingsProbed
    IN  /\ Len(L) <= 6
        /\ \A i \in DOMAIN L : L[i].hour = HourBehind(i - 1)
        /\ \A i \in DOMAIN L : i < Len(L) => (i - 1) \notin GoodOffsets
        /\ \A i \in DOMAIN ec_probes :
              ec_probes[i].get = "document" =>
                 i > 1 /\ ec_probes[i - 1] = [get |-> "listing", hour |-> ec_probes[i].hour]
        /\ (ec_pc = "scan") => Len(L) = ec_offset /\ ec_result = None
        /\ (ec_pc = "returned") =>
              /\ GoodOffsets # {}
              /\ (Len(L) - 1) \in GoodOffsets
              /\ \A k \in GoodOffsets : Len(L) - 1 <= k
              /\ ec_result = Returns(parse_ec_xml(XmlDoc(HourBehind(Len(L) - 1))))
              /\ ec_probes[Len(ec_probes)] = [get |-> "document", hour |-> HourBehind(Len(L) - 1)]
        /\ (ec_pc = "raised") =>
              /\ GoodOffsets = {}
              /\ Len(L) = 6
              /\ ec_result = Raise("RuntimeError")
        /\ (ec_pc = "scan" /\ ec_offset >= 6) => GoodOffsets = {}

\* Offsets 0 to 4 failed, each in some way, offset 5 succeeded and its document
\* was returned; the scan crossed midnight.
C8_Witness ==
    /\ ec_pc = "returned"
    /\ Len(ListingsProbed) = 6
    /\ GoodOffsets = {5}
    /\ ec_now = 3
    /\ ec_result = Returns(parse_ec_xml(XmlDoc(22)))
    /\ {ec_env[HourBehind(k)] : k \in 0..4} = {"listing_fails", "no_link", "document_fails"}

(***************************************************************************)
(* fetch_avalanche_canada(): region selection and the product request.     *)
(* Coordinates are in hundredths of a degree.                              *)
(***************************************************************************)
MountainLat == 5135
MountainLon == -11795

Abs(x) == IF x < 0 THEN -x ELSE x

\* "monashee" in title or "north columbia" in title, title lower-cased
TitleMatches(r) ==
    LET title == Lower(r.title)
    IN  \/ Contains(title, <<"m","o","n","a","s","h","e","e">>)
        \/ Contains(title, <<"n","o","r","t","h"," ","c","o","l","u","m","b","i","a">>)

\* The first loop: the first entry that matches by name, None without one.
RegionByName(metadata) ==
    IF \E i \in DOMAIN metadata : TitleMatches(metadata[i])
    THEN metadata[CHOOSE i \in DOMAIN metadata :
                    /\ TitleMatches(metadata[i])
                    /\ \A j \in 1..(i - 1) : ~TitleMatches(metadata[j])]
    ELSE None

\* dist of the second loop
CentroidDist(c) == Abs(c.latitude - MountainLat) + Abs(c.longitude - MountainLon)

\* Variant of Closer: dist <= best_dist, the latest of equally near entries wins.
Closer_OrEqual(dist, best) == best.region = None \/ dist <= best.dist

\* if dist < best_dist (best_dist starts at infinity: best.region = None)
Closer(dist, best) == best.region = None \/ dist < best.dist

\* The second loop from entry i on: best holds best_dist and region.
RECURSIVE ClosestFrom(_, _, _)
ClosestFrom(metadata, i, best) ==
    IF i > Len(metadata) THEN best.region
    ELSE LET c == metadata[i].centroid
         IN  IF ~Truthy(c) THEN ClosestFrom(metadata, i + 1, best)
             ELSE IF Closer(CentroidDist(c), best)
             THEN ClosestFrom(metadata, i + 1, [dist |-> CentroidDist(c), region |-> metadata[i]])
             ELSE ClosestFrom(metadata, i + 1, best)

\* region after both loops
SelectRegion(metadata) ==
    IF Truthy(RegionByName(metadata)) THEN RegionByName(metadata)
    ELSE ClosestFrom(metadata, 1, [dist |-> 0, region |-> None])

AvFetchMetadataFails ==
    /\ av_pc = "start"
    /\ IsRaise(av_env.metadata)
    /\ av_requests' = Append(av_requests, [get |-> "metadata"])
    /\ av_result' = av_env.metadata
    /\ av_pc' = "raised"
    /\ UNCHANGED <<av_env, av_region, mainVars, ecVars, fnVars, callVars>>

\* The catalog is fetched and the region selected.
AvSelectRegion ==
    /\ av_pc = "start"
    /\ ~IsRaise(av_env.metadata)
    /\ av_requests' = Append(av_requests, [get |-> "metadata"])
    /\ av_region' = SelectRegion(av_env.metadata.value)
    /\ av_pc' = "resolve"
    /\ UNCHANGED <<av_env, av_result, mainVars, ecVars, fnVars, callVars>>

\* if not region: return {"region": None, "product": None}
AvNoRegion ==
    /\ av_pc = "resolve"
    /\ ~Truthy(av_region)
    /\ av_result' = Returns([region |-> None, product |-> None])
    /\ av_pc' = "returned"
    /\ UNCHANGED <<av_env, av_region, av_requests, mainVars, ecVars, fnVars, callVars>>

\* if not slug: return {"region": region, "product": None}
AvNoSlug ==
    /\ av_pc = "resolve"
    /\ Truthy(av_region)
    /\ ~Truthy(av_region.slug)
    /\ av_result' = Returns([region |-> av_region, product |-> None])
    /\ av_pc' = "returned"
    /\ UNCHANGED <<av_env, av_region, av_requests, mainVars, ecVars, fnVars, callVars>>

\* product = fetch_json(.../products/{slug})
AvFetchProduct ==
    /\ av_pc = "resolve"
    /\ Truthy(av_region)
    /\ Truthy(av_region.slug)
    /\ av_requests' = Append(av_requests, [get |-> "product", slug |-> av_region.slug])
    /\ av_result' = IF IsRaise(av_env.product) THEN av_env.product
                    ELSE Returns([region |-> av_region, product |-> av_env.product.value])
    /\ av_pc' = IF IsRaise(av_env.product) THEN "raised" ELSE "returned"
    /\ UNCHANGED <<av_env, av_region, mainVars, ecVars, fnVars, callVars>>

CatalogTitles ==
    {<<>>,
     <<"P","u","r","c","e","l","l","s">>,
     <<"N","o","r","t","h"," ","C","o","l","u","m","b","i","a">>,
     <<"S","o","u","t","h"," ","M","O","N","A","S","H","E","E","S">>}

\* No centroid, two centroids at the same distance (0.10 degrees) from the
\* mountain, and a far one.
CatalogCentroids ==
    {None,
     [latitude |-> 5140, longitude |-> -11790],
     [latitude |-> 5128, longitude |-> -11798],
     [latitude |-> 4950, longitude |-> -11620]}

CatalogEntries ==
    {[title |-> t, slug |-> g, centroid |-> c] :
        t \in CatalogTitles, g \in {None, [str |-> "a-slug"]}, c \in CatalogCentroids}

Catalogs == UNION {[1..n -> CatalogEntries] : n \in 0..MaxCatalog}

InitAv ==
    /\ av_pc = "start"
    /\ av_env \in [metadata : {Raise("URLError")} \cup {Returns(m) : m \in Catalogs},
                   product : {Raise("URLError"), Returns(SampleProduct)}]
    /\ av_region = None
    /\ av_requests = <<>>
    /\ av_result = None
    /\ IdleMain /\ IdleEc /\ IdleFn /\ IdleCall

NextAv ==
    AvFetchMetadataFails \/ AvSelectRegion \/ AvNoRegion \/ AvNoSlug \/ AvFetchProduct

SpecAv == InitAv /\ [][NextAv]_vars

(***************************************************************************)
(* Properties of fetch_avalanche_canada().                                 *)
(***************************************************************************)
\* The catalog the metadata request returned.
Catalog == av_env.metadata.value

NamedEntries == {i \in DOMAIN Catalog : TitleMatches(Catalog[i])}
LocatedEntries == {i \in DOMAIN Catalog : Catalog[i].centroid # None}

\* |lat - 51.35| + |lon - (-117.95)| of entry i, in hundredths of a degree.
Manhattan(i) ==
    Abs(Catalog[i].centroid.latitude - 5135) + Abs(Catalog[i].centroid.longitude + 11795)

Least(S) == CHOOSE i \in S : \A j \in S : i <= j

NearestEntries == {i \in LocatedEntries : \A j \in LocatedEntries : Manhattan(i) <= Manhattan(j)}

ProductRequests == {i \in DOMAIN av_requests : av_requests[i].get = "product"}

\* C9: the region is the first entry (catalog order) that matches by name, nearer
\* entries notwithstanding; without a name match it is the entry of least
\* Manhattan distance among those with a centroid, the earliest of equals;
\* without either there is no region, the result holds neither region nor
\* product and no product is requested.  The product is requested only once a
\* region with a slug is selected, for that slug.
C9_RegionSelection ==
    /\ (av_pc \in {"resolve", "returned"} \/ (av_pc = "raised" /\ Len(av_requests) = 2)) =>
          /\ (NamedEntries # {}) => av_region = Catalog[Least(NamedEntries)]
          /\ (NamedEntries = {} /\ LocatedEntries # {}) =>
                av_region = Catalog[Least(NearestEntries)]
          /\ (NamedEntries = {} /\ LocatedEntries = {}) => av_region = None
    /\ (av_pc = "returned" /\ av_region = None) =>
          /\ av_result = Returns([region |-> None, product |-> None])
          /\ ProductRequests = {}
    /\ \A i \in ProductRequests :
          /\ i = 2 /\ av_requests[1] = [get |-> "metadata"]
          /\ av_region # None /\ av_region.slug # None
          /\ av_requests[i].slug = av_region.slug
    /\ (av_pc = "returned" /\ av_result.value.product # None) => ProductRequests = {2}

\* The second entry was selected by name and its product fetched although the
\* first entry, which does not match by name, lies nearer to the mountain.
C9_Witness ==
    /\ av_pc = "returned"
    /\ ProductRequests = {2}
    /\ Len(Catalog) >= 2
    /\ NamedEntries = {2}
    /\ av_region = Catalog[2]
    /\ LocatedEntries = {1, 2}
    /\ Manhattan(1) < Manhattan(2)

(***************************************************************************)
(* The avalanche formatting functions applied to one bulletin and one day. *)
(***************************************************************************)
RatingValues == {"low", "moderate", "considerable", "high", "extreme", "norating"}

\* A band of a dangerRatings entry: missing, a rating as the API sends it, a
\* rating without display, or a rating object without value and display.
BandInputs ==
    {None} \cup {[value |-> v, display |-> d] :
                    v \in RatingValues, d \in {Missing}} \cup
    {[value |-> v, display |-> FormatLabel(levels(v), v)] : v \in RatingValues \ {"norating"}}
    \cup {[value |-> "norating", display |-> "0 - No Rating"],
          [value |-> Missing, display |-> Missing]}

RatingsInputs == [alp : BandInputs, tln : BandInputs, btl : BandInputs]

LaterEntry ==
    [date |-> Num(2),
     ratings |-> [alp |-> Band("extreme"), tln |-> Band("extreme"), btl |-> Band("extreme")]]

ReportTitle == <<"N","o","r","t","h"," ","M","o","n","a","s","h","e","e","s">>

ProductInputs ==
    {[report |-> None], [report |-> [title |-> ReportTitle, dangerRatings |-> <<>>]]}
    \cup {[report |-> [title |-> ReportTitle,
                       dangerRatings |-> <<[date |-> Num(1), ratings |-> r]>> \o rest]] :
             r \in RatingsInputs, rest \in {<<>>, <<LaterEntry>>}}

\* What main() can hold in avy_data: None after a failed fetch, else a return
\* value of fetch_avalanche_canada.
BulletinInputs ==
    {None,
     [region |-> None, product |-> None],
     [region |-> SampleRegion(None), product |-> None]}
    \cup {[region |-> SampleRegion([str |-> "north-columbia"]), product |-> p] :
             p \in ProductInputs}

DayInputs == {process_day(1, Payload({1}, v), Payload({1}, 0)) : v \in {1, 2}}

CallAvyBanner ==
    /\ fn_pc = "ready"
    /\ fn_banner = None
    /\ fn_banner' = avy_banner(fn_avy)
    /\ UNCHANGED <<fn_pc, fn_avy, fn_day, fn_notes, fn_page, mainVars, ecVars, avVars,
                   callVars>>

CallGenAvyNotes ==
    /\ fn_pc = "ready"
    /\ fn_notes = None
    /\ fn_notes' = gen_avy_notes(fn_day, fn_avy)
    /\ UNCHANGED <<fn_pc, fn_avy, fn_day, fn_banner, fn_page, mainVars, ecVars, avVars,
                   callVars>>

\* generate_html for the one day; fn_page is the page or the exception.
CallGenerateHtml ==
    /\ fn_pc = "ready"
    /\ fn_page = None
    /\ fn_page' = generate_html(<<fn_day>>, None, fn_avy, None)
    /\ UNCHANGED <<fn_pc, fn_avy, fn_day, fn_banner, fn_notes, mainVars, ecVars, avVars,
                   callVars>>

InitFn ==
    /\ fn_pc = "ready"
    /\ fn_avy \in BulletinInputs
    /\ fn_day \in DayInputs
    /\ fn_banner = None /\ fn_notes = None /\ fn_page = None
    /\ IdleMain /\ IdleEc /\ IdleAv /\ IdleCall

NextFn == CallAvyBanner \/ CallGenAvyNotes \/ CallGenerateHtml

SpecFn == InitFn /\ [][NextFn]_vars

(***************************************************************************)
(* Properties of the avalanche formatting functions.                       *)
(***************************************************************************)
\* The bulletin has a region or not, and no product.
HalfPopulated(avy) == avy # None /\ avy.product = None

\* C5 (as claimed): for a bulletin without product no later stage fails:
\* gen_avy_notes returns the storm-slab, wind-slab and persistent-layer clauses
\* without a rating sentence, avy_banner returns the unknown placeholder, and
\* generate_html shows the region's title when the region is known.
C5_HalfBulletin ==
    HalfPopulated(fn_avy) =>
        /\ (fn_notes # None) =>
              ~IsRaise(fn_notes) /\ fn_notes.value = SnowpackClauses(fn_day)
        /\ (fn_banner # None) => fn_banner = UnknownBanner
        /\ (fn_page # None) =>
              /\ ~IsRaise(fn_page)
              /\ (fn_avy.region # None) => fn_page.value.region_name = fn_avy.region.title

\* The bands of the first dangerRatings entry of a bulletin that has one.
FirstRatings(avy) == avy.product.report.dangerRatings[1].ratings

HasRatings(avy) ==
    /\ avy # None /\ avy.product # None /\ avy.product.report # None
    /\ avy.product.report.dangerRatings # <<>>

Bands == {"alp", "tln", "btl"}

\* low=1, moderate=2, considerable=3, high=4, extreme=5; 0 for anything else.
Ordinal(band) ==
    IF band = None THEN 0
    ELSE CASE band.value = "low" -> 1 [] band.value = "moderate" -> 2
           [] band.value = "considerable" -> 3 [] band.value = "high" -> 4
           [] band.value = "extreme" -> 5 [] OTHER -> 0

Recognised(avy) == HasRatings(avy) /\ \E e \in Bands : Ordinal(FirstRatings(avy)[e]) > 0

\* The label of a band: its display, or level and name when it carries none.
LabelOf(band) ==
    IF band.display = Missing THEN FormatLabel(Ordinal(band), band.value) ELSE band.display

\* The bulletin cut down to its first dangerRatings entry.
FirstEntryOnly(avy) ==
    [avy EXCEPT !.product.report.dangerRatings = <<avy.product.report.dangerRatings[1]>>]

\* C6 (as claimed): when a band of the first entry has a recognised rating, the
\* level is the greatest ordinal of its three bands, later entries change
\* nothing, and label and color are those of a band that carries the greatest
\* ordinal.
C6_BannerOfMaxBand ==
    (fn_banner # None /\ Recognised(fn_avy)) =>
        LET r == FirstRatings(fn_avy)
            top == {e \in Bands : \A f \in Bands : Ordinal(r[f]) <= Ordinal(r[e])}
        IN  /\ \E e \in top : fn_banner.level = Num(Ordinal(r[e]))
            /\ fn_banner = avy_banner(FirstEntryOnly(fn_avy))
            /\ \E e \in top : /\ fn_banner.label = LabelOf(r[e])
                              /\ fn_banner.color = colors(r[e].value)

\* C7 (as claimed): without rating data (no bulletin, no product, no report, no
\* dangerRatings entry, or a first entry without a recognised rating) the banner
\* is the unknown placeholder; a level 1..5 is the ordinal of a band of the first
\* entry.
C7_NoFabricatedRating ==
    (fn_banner # None) =>
        /\ ~Recognised(fn_avy) => fn_banner = UnknownBanner
        /\ \A n \in 1..5 :
              fn_banner.level = Num(n) =>
                 /\ HasRatings(fn_avy)
                 /\ \E e \in Bands : Ordinal(FirstRatings(fn_avy)[e]) = n

(***************************************************************************)
(* Single calls of the utility, data-processing and narrative functions.   *)
(***************************************************************************)
\* A call not yet made of function f.
Calling(f) == call_fn = f /\ call_out = None

Return(x) ==
    /\ call_out' = Returns(x)
    /\ UNCHANGED <<call_fn, call_arg, mainVars, ecVars, avVars, fnVars>>

\* A wind direction of the payload: an integer, or null.
DegreeInputs == {None} \cup {Num(d) : d \in (0 - MaxDegree)..MaxDegree}

\* A whole-degree daily maximum and an elevation of CONFIG.
FreezingInputs == [temp_c : (0 - MaxTemp)..MaxTemp, elev_m : {MountainElev, 443}]

CallDegToCompass ==
    /\ Calling("deg_to_compass")
    /\ Return(deg_to_compass(call_arg))

CallFreezingLevel ==
    /\ Calling("freezing_level")
    /\ Return(freezing_level(call_arg.temp_c, call_arg.elev_m))

\* A daily row of date d: w gives the raw maximum temperature and wind (tenths)
\* and the snowfall (hundredths of a cm).
DailyOf(d, w) ==
    [time |-> d,
     temperature_2m_max |-> w.high, temperature_2m_min |-> w.high - 63,
     precipitation_sum |-> w.snow, snowfall_sum |-> w.snow,
     windspeed_10m_max |-> w.wind, winddirection_10m_dominant |-> 250,
     weathercode |-> IF w.snow > 0 THEN 73 ELSE 2]

\* The hours a payload may cover on the date asked for: the bounds of the three
\* periods, the hour before the first, the last hour of the day.
PeriodHours == <<5, 6, 11, 12, 17, 18, 23>>

\* The hourly row of date d at hour h; each of PeriodHours snows a different
\* amount (0.2, 0.4, 0.8, ... cm), any other hour 0.1 cm.
HourOf(d, h) ==
    [date |-> d, hour |-> h,
     temperature_2m |-> 7 * h - 120,
     snowfall |-> 10 * (2 ^ IndexOf(PeriodHours, h)),
     windspeed_10m |-> 80 + 9 * ((h * 5) % 7),
     winddirection_10m |-> 15 * h,
     weathercode |-> IF h < 12 THEN 71 ELSE 3,
     cloudcover |-> (17 * h) % 101]

\* A payload with the daily rows of dates 1 and 2, the hourly rows of date 1 at
\* the hours H (in time order) and two hourly rows of date 2.
PayloadOf(w, H) ==
    [daily |-> <<DailyOf(1, w), DailyOf(2, w)>>,
     hourly |-> [i \in DOMAIN SelectSeq(PeriodHours, LAMBDA h : h \in H) |->
                    HourOf(1, SelectSeq(PeriodHours, LAMBDA h : h \in H)[i])]
                \o <<HourOf(2, 8), HourOf(2, 14)>>]

HighInputs == {-105, -15, 25, 46, 50}

ProcessDayInputs ==
    {[date_str |-> 1,
      mtn_data |-> PayloadOf([high |-> t, wind |-> 185, snow |-> 120], H),
      val_data |-> PayloadOf([high |-> t + 40, wind |-> 60, snow |-> 0], {})] :
        t \in HighInputs, H \in SUBSET {PeriodHours[i] : i \in DOMAIN PeriodHours}}

CallProcessDay ==
    /\ Calling("process_day")
    /\ Return(process_day(call_arg.date_str, call_arg.mtn_data, call_arg.val_data))

\* The record process_day computes for date d from a payload with the daily row
\* of weather w and one hourly row (10 h) with cloud cover w.cloud.
SampleDayOf(d, w) ==
    LET payload == [daily |-> <<DailyOf(d, w)>>,
                    hourly |-> <<[HourOf(d, 10) EXCEPT !.cloudcover = w.cloud]>>]
    IN  process_day(d, payload, payload)

\* Weather on both sides of every threshold of gen_backcountry.
BackcountryWeather ==
    [cloud : {20, 29, 30, 80, 81}, snow : {0, 4, 10, 500, 510, 1500, 1510, 2000},
     wind : {100, 150, 155, 250, 255}, high : {20, 25, 30}]

BackcountryInputs == {SampleDayOf(1, w) : w \in BackcountryWeather}

CallGenBackcountry ==
    /\ Calling("gen_backcountry")
    /\ Return(gen_backcountry(call_arg))

\* Weather on both sides of the thresholds of the week outlook's best days.
OutlookWeather == [cloud : {49, 50}, snow : {0, 30}, wind : {145, 150}, high : {20}]

\* Day sequences of 1..MaxDays consecutive dates.
OutlookInputs ==
    UNION {{[i \in 1..n |-> SampleDayOf(i, ws[i])] : ws \in [1..n -> OutlookWeather]} :
             n \in 1..MaxDays}

CallGenWeekOutlook ==
    /\ Calling("gen_week_outlook")
    /\ Return(gen_week_outlook(call_arg))

\* Weather on both sides of the thresholds of gen_avy_notes.
AvyNoteWeather == [cloud : {50}, snow : {300, 310, 1000, 1010}, wind : {150, 155}, high : {-20}]

\* dangerRatings lists: none, for the day asked for (date 1), for another day,
\* for both, and two for the day asked for, the lower rating first.
RatingLists ==
    LET of(d, v) == [date |-> Num(d),
                     ratings |-> [alp |-> Band(v), tln |-> Band("moderate"), btl |-> None]]
    IN  {<<>>, <<of(1, "high")>>, <<of(2, "high")>>, <<of(2, "high"), of(1, "low")>>,
         <<of(1, "low"), of(1, "extreme")>>}

\* What main() can hold in avy_data when it calls gen_avy_notes.
AvyNoteBulletins ==
    {None,
     [region |-> None, product |-> None],
     [region |-> SampleRegion(None), product |-> None],
     [region |-> SampleRegion([str |-> "north-columbia"]), product |-> [report |-> None]]}
    \cup {[region |-> SampleRegion([str |-> "north-columbia"]),
           product |-> [report |-> [title |-> ReportTitle, dangerRatings |-> l]]] :
             l \in RatingLists}

AvyNoteInputs ==
    [day : {SampleDayOf(1, w) : w \in AvyNoteWeather}, avy_data : AvyNoteBulletins]

\* call_out holds the notes, or the exception that leaves gen_avy_notes.
CallGenAvyNotesOf ==
    /\ Calling("gen_avy_notes")
    /\ Return(gen_avy_notes(call_arg.day, call_arg.avy_data))

\* Records of date 1, a Sunday: with or without hourly data, with or without
\* the date in the valley series.
CardDays ==
    {process_day(1, PayloadOf([high |-> -15, wind |-> 185, snow |-> 120], H), v) :
        H \in {{}, {6, 12, 18}},
        v \in {PayloadOf([high |-> 25, wind |-> 60, snow |-> 0], {}),
               [daily |-> <<DailyOf(2, [high |-> 25, wind |-> 60, snow |-> 0])>>,
                hourly |-> <<>>]}}

\* Blocks of the text feed as parse_ec_xml returns them; <textSummary/> may be
\* empty.
FeedBlocks ==
    {[period |-> <<"S","u","n","d","a","y">>, summary |-> "Sunny."],
     [period |-> <<"S","u","n","d","a","y"," ","n","i","g","h","t">>, summary |-> "Clear."],
     [period |-> <<"M","o","n","d","a","y">>, summary |-> "Flurries."],
     [period |-> <<"S","U","N","D","A","Y">>, summary |-> "Windy."],
     [period |-> <<"S","u","n","d","a","y">>, summary |-> ""]}

\* ec_forecasts: None after a failed fetch, else a feed of up to two blocks.
FeedInputs ==
    {None, [forecasts |-> <<>>]}
    \cup {[forecasts |-> <<b>>] : b \in FeedBlocks}
    \cup {[forecasts |-> <<b, c>>] : b \in FeedBlocks, c \in FeedBlocks}

CardInputs == [day : CardDays, ec_forecasts : FeedInputs]

\* generate_html for one day, without observation and bulletin.
CallGenerateHtmlOf ==
    /\ Calling("generate_html")
    /\ Return(generate_html(<<call_arg.day>>, None, None, call_arg.ec_forecasts))

CallInputs ==
    [fn : {"deg_to_compass"}, arg : DegreeInputs]
    \cup [fn : {"freezing_level"}, arg : FreezingInputs]
    \cup [fn : {"process_day"}, arg : ProcessDayInputs]
    \cup [fn : {"gen_backcountry"}, arg : BackcountryInputs]
    \cup [fn : {"gen_week_outlook"}, arg : OutlookInputs]
    \cup [fn : {"gen_avy_notes"}, arg : AvyNoteInputs]
    \cup [fn : {"generate_html"}, arg : CardInputs]

InitCall ==
    /\ \E c \in CallInputs : call_fn = c.fn /\ call_arg = c.arg
    /\ call_out = None
    /\ IdleMain /\ IdleEc /\ IdleAv /\ IdleFn

NextCall ==
    \/ CallDegToCompass \/ CallFreezingLevel
    \/ CallProcessDay
    \/ CallGenBackcountry \/ CallGenWeekOutlook
    \/ CallGenAvyNotesOf \/ CallGenerateHtmlOf

SpecCall == InitCall /\ [][NextCall]_vars

(***************************************************************************)
(* Properties of the utility functions.                                    *)
(***************************************************************************)
\* function f has returned
Returned(f) == call_fn = f /\ call_out # None

\* v is a nearest integer to num/den (den > 0).
Nearest(v, num, den) == 2 * Abs(den * v - num) <= den

\* C18: for every integer degree, negative ones and those from 360 on included,
\* deg_to_compass returns one of the 8 compass points, the same for deg and
\* deg + 360, the point numbered round(deg/45) mod 8; 359 and 1 give N; the
\* point changes between deg and deg + 1 exactly at 22.5 + 45k (22 -> N,
\* 23 -> NE, 67 -> NE, 68 -> E).
C18_CompassBucketing ==
    (Returned("deg_to_compass") /\ call_arg # None) =>
        LET deg == call_arg.int
            out == call_out.value
            points == <<"N", "NE", "E", "SE", "S", "SW", "W", "NW">>
            span == (MaxDegree \div 45) + 1
        IN  /\ \E i \in 1..8 : out = points[i]
            /\ out = deg_to_compass(Num(deg + 360))
            /\ \E k \in (0 - span)..span :
                  Nearest(k, deg, 45) /\ out = points[(k % 8) + 1]
            /\ (deg \in {359, 1, 22}) => out = "N"
            /\ (deg \in {23, 67}) => out = "NE"
            /\ (deg = 68) => out = "E"
            /\ (out # deg_to_compass(Num(deg + 1))) <=> ((deg - 22) % 45 = 0)

\* deg_to_compass has returned NW for a negative direction.
C18_Witness ==
    /\ Returned("deg_to_compass")
    /\ call_arg = Num(-45)
    /\ call_out = Returns("NW")

\* C19 (freezing_level part): the value is round(elev + (temp / 6.5) * 1000),
\* strictly increasing in the whole-degree temperature by 153 or 154 m a degree;
\* 5 degrees at 1900 m give 2669.
FreezingLevelOfCall ==
    Returned("freezing_level") =>
        LET t == call_arg.temp_c
            e == call_arg.elev_m
            out == call_out.value
        IN  /\ Nearest(out, 13 * e + 2000 * t, 13)
            /\ (freezing_level(t + 1, e) - out) \in {153, 154}
            /\ (t = 5 /\ e = 1900) => out = 2669

\* C19: every freshly computed record has freezing_level =
\* round(1900 + (mountain.high / 6.5) * 1000), mountain.high being the daily
\* maximum rounded to whole degrees; for a fixed elevation the value rises with
\* the whole-degree temperature, by 153 or 154 m a degree; 5 degrees at 1900 m
\* give 2669.
C19_FreezingLevel ==
    /\ FreezingLevelOfCall
    /\ Returned("process_day") =>
          LET day == call_out.value
          IN  /\ day # None
              /\ Nearest(day.mountain.high, call_arg.mtn_data.daily[1].temperature_2m_max, 10)
              /\ Nearest(day.freezing_level, 13 * 1900 + 2000 * day.mountain.high, 13)
              /\ (day.mountain.high = 5) => day.freezing_level = 2669

\* A record computed from a daily maximum of 5.0 degrees: 2669 m.
C19_Witness ==
    /\ Returned("process_day")
    /\ call_arg.mtn_data.daily[1].temperature_2m_max = 50
    /\ call_out.value.mountain.high = 5
    /\ call_out.value.freezing_level = 2669

(***************************************************************************)
(* Properties of process_day and extract_hourly_period.                    *)
(***************************************************************************)
\* The hourly entries of the date asked for with lo <= hour < hi, in call_arg.
EntriesIn(lo, hi) ==
    SelectSeq(call_arg.mtn_data.hourly,
              LAMBDA e : e.date = call_arg.date_str /\ lo <= e.hour /\ e.hour < hi)

\* Summary p is absent iff rows is empty, and aggregates exactly rows otherwise
\* (every hour snows a different power of two, so the total names the rows).
SummaryOf(p, rows) ==
    IF rows = <<>> THEN p = None
    ELSE /\ p # None
         /\ 10 * p.snow_total = SeqSum([i \in DOMAIN rows |-> rows[i].snowfall])
         /\ \A i \in DOMAIN rows : 10 * p.temp_min - 5 <= rows[i].temperature_2m
         /\ \A i \in DOMAIN rows : rows[i].temperature_2m <= 10 * p.temp_max + 5
         /\ \E i \in DOMAIN rows : Nearest(p.wind_max, rows[i].windspeed_10m, 10)
         /\ \A i \in DOMAIN rows : rows[i].windspeed_10m <= 10 * p.wind_max + 5
         /\ Nearest(p.cloud_avg, SeqSum([i \in DOMAIN rows |-> rows[i].cloudcover]), Len(rows))
         /\ Nearest(p.temp_avg, SeqSum([i \in DOMAIN rows |-> rows[i].temperature_2m]),
                    10 * Len(rows))

PeriodsOfDay(day) ==
    /\ SummaryOf(day.am, EntriesIn(6, 12))
    /\ SummaryOf(day.pm, EntriesIn(12, 18))
    /\ SummaryOf(day.night, EntriesIn(18, 24))

\* C16 (as claimed): each of am, pm and night is absent iff the date has no
\* hourly entry in [6,12), [12,18), [18,24), and aggregates exactly those
\* entries otherwise; avg_cloud is 50 when the date has no hourly entry at all
\* and otherwise the rounded mean cloud cover of its entries in [6,24).
C16_DefaultOnlyWithoutHourlyData ==
    Returned("process_day") =>
        LET day == call_out.value
            rows == EntriesIn(6, 24)
        IN  /\ PeriodsOfDay(day)
            /\ IF EntriesIn(0, 24) = <<>> THEN day.avg_cloud = 50
               ELSE /\ rows # <<>>
                    /\ Nearest(day.avg_cloud,
                               SeqSum([i \in DOMAIN rows |-> rows[i].cloudcover]), Len(rows))

\* C16 (amended): the same for am, pm and night; avg_cloud is 50 when the date
\* has no hourly entry in [6,24), entries before 6 h notwithstanding, and
\* otherwise the rounded mean cloud cover of its entries in [6,24).
C16_PeriodSummaries ==
    Returned("process_day") =>
        LET day == call_out.value
            rows == EntriesIn(6, 24)
        IN  /\ PeriodsOfDay(day)
            /\ IF rows = <<>> THEN day.avg_cloud = 50
               ELSE Nearest(day.avg_cloud,
                            SeqSum([i \in DOMAIN rows |-> rows[i].cloudcover]), Len(rows))

\* A record of a date with entries at 5, 12 and 17 h only: the morning and the
\* night are absent, the afternoon aggregates the two entries of 12 and 17 h.
C16_Witness ==
    /\ Returned("process_day")
    /\ {EntriesIn(0, 24)[i].hour : i \in DOMAIN EntriesIn(0, 24)} = {5, 12, 17}
    /\ call_out.value.am = None /\ call_out.value.night = None
    /\ call_out.value.pm # None
    /\ call_out.value.pm.snow_total = 48

(***************************************************************************)
(* Properties of the narratives.                                           *)
(***************************************************************************)
\* The clause names of a note, in order.
ClauseNames(note) == [i \in DOMAIN note |-> note[i].clause]

\* C13: for a non-empty day sequence the best-days list holds exactly the
\* formatted dates of the days with avg_cloud < 50 and mountain wind_max < 15,
\* in sequence order (15 km/h and 50 % are out); the best-days clause is there
\* iff the list is not empty, the total-snowfall clause iff the summed mountain
\* snowfall is above zero.
C13_BestDays ==
    Returned("gen_week_outlook") =>
        LET ds == call_arg
            out == call_out.value
            good == SelectSeq(ds, LAMBDA d : d.avg_cloud < 50 /\ d.mountain.wind_max < 15)
            total == SeqSum([i \in DOMAIN ds |-> ds[i].mountain.snow])
            bestAt == {i \in DOMAIN out : out[i].clause = "best"}
            snowAt == {i \in DOMAIN out : out[i].clause = "total_snow"}
        IN  /\ ds # <<>>
            /\ Cardinality(bestAt) = (IF good = <<>> THEN 0 ELSE 1)
            /\ \A i \in bestAt : out[i].dates = [k \in DOMAIN good |-> good[k].date_fmt]
            /\ Cardinality(snowAt) = (IF total > 0 THEN 1 ELSE 0)

\* An outlook of two days: the first qualifies, the second has wind of exactly
\* 15 km/h and is left out; there is no snowfall and no total-snowfall clause.
C13_Witness ==
    /\ Returned("gen_week_outlook")
    /\ Len(call_arg) = 2
    /\ call_arg[1].avg_cloud = 49 /\ call_arg[1].mountain.wind_max = 14
    /\ call_arg[2].avg_cloud = 49 /\ call_arg[2].mountain.wind_max = 15
    /\ \E i \in DOMAIN call_out.value :
          call_out.value[i] = [clause |-> "best", dates |-> <<call_arg[1].date_fmt>>]
    /\ \A i \in DOMAIN call_out.value : call_out.value[i].clause # "total_snow"

\* C14: gen_backcountry gives, in this order, one visibility clause (cloud < 30,
\* cloud > 80, otherwise), one snow clause (snow > 15, 5 < snow <= 15,
\* 0 < snow <= 5, snow <= 0), at most one wind clause (wind > 25,
\* 15 < wind <= 25, none up to 15) and the warm-temperature clause iff high > 2,
\* each category by itself; snow 20 cm, wind 10 km/h, cloud 20 % gives the
\* excellent-visibility and the deep-powder clause and no wind clause.
C14_BackcountryNote ==
    Returned("gen_backcountry") =>
        LET cloud == call_arg.avg_cloud
            snow == call_arg.mountain.snow
            wind == call_arg.mountain.wind_max
            high == call_arg.mountain.high
            visibility == CASE cloud < 30 -> "excellent_visibility"
                            [] cloud > 80 -> "flat_light"
                            [] OTHER -> "variable_visibility"
            snowfall == CASE snow > 150 -> "heavy_snowfall"
                          [] snow > 50 /\ snow <= 150 -> "fresh_snow"
                          [] snow > 0 /\ snow <= 50 -> "light_snow"
                          [] OTHER -> "no_new_snow"
            winds == CASE wind > 25 -> <<"strong_winds">>
                       [] wind > 15 /\ wind <= 25 -> <<"moderate_winds">>
                       [] OTHER -> <<>>
            warm == IF high > 2 THEN <<"warm_temps">> ELSE <<>>
        IN  /\ ClauseNames(call_out.value) = <<visibility, snowfall>> \o winds \o warm
            /\ (snow = 200 /\ wind = 10 /\ cloud = 20) =>
                  /\ call_out.value[1].clause = "excellent_visibility"
                  /\ call_out.value[2].clause = "heavy_snowfall"
                  /\ \A i \in DOMAIN call_out.value :
                        call_out.value[i].clause \notin {"strong_winds", "moderate_winds"}

\* The note of a day with 20 cm of snow, 10 km/h of wind and 20 % of cloud.
C14_Witness ==
    /\ Returned("gen_backcountry")
    /\ call_arg.mountain.snow = 200 /\ call_arg.mountain.wind_max = 10
    /\ call_arg.avg_cloud = 20 /\ call_arg.mountain.high = 2
    /\ ClauseNames(call_out.value) = <<"excellent_visibility", "heavy_snowfall">>

\* The dangerRatings of a bulletin, the empty list when it has no report.
RatingsOf(avy) ==
    IF avy = None THEN <<>>
    ELSE IF avy.product = None THEN <<>>
    ELSE IF avy.product.report = None THEN <<>>
    ELSE avy.product.report.dangerRatings

\* C15 (as claimed): for every day and every bulletin, present or absent,
\* gen_avy_notes returns its clauses in the order rating, storm slab, wind slab,
\* persistent layer; the persistent-layer advisory is always there and last; the
\* rating sentence is there iff a danger rating is dated the day's date, once,
\* made from the first such rating; the natural-avalanches storm-slab clause iff
\* snow > 10, the lesser one iff 3 < snow <= 10, the wind-slab clause iff
\* wind > 15, whatever the bulletin.
C15_AvyNoteComposition ==
    Returned("gen_avy_notes") =>
        LET day == call_arg.day
            list == RatingsOf(call_arg.avy_data)
            dated == {i \in DOMAIN list : list[i].date = Num(day.date)}
            snow == day.mountain.snow
            wind == day.mountain.wind_max
            storm == CASE snow > 100 -> <<"storm_slab_natural">>
                       [] snow > 30 /\ snow <= 100 -> <<"storm_slab">>
                       [] OTHER -> <<>>
            slab == IF wind > 15 THEN <<"wind_slab">> ELSE <<>>
            rating == IF dated = {} THEN <<>> ELSE <<"rating">>
        IN  /\ ~IsRaise(call_out.value)
            /\ LET notes == call_out.value.value
               IN  /\ ClauseNames(notes) = rating \o storm \o slab \o <<"persistent">>
                   /\ (dated # {}) =>
                         LET first == list[CHOOSE i \in dated : \A j \in dated : i <= j]
                         IN  /\ notes[1].alp = first.ratings.alp.display
                             /\ notes[1].tln = first.ratings.tln.display
                             /\ notes[1].btl = "?"

(***************************************************************************)
(* Properties of the day card.                                             *)
(***************************************************************************)
\* The summaries of the feed blocks whose lower-cased period label contains the
\* weekday name of the card's date, in feed order.
MatchingSummaries ==
    LET feed == IF call_arg.ec_forecasts = None THEN <<>> ELSE call_arg.ec_forecasts.forecasts
        name == DayNameChars[Weekday(call_arg.day.date) + 1]
        hits == SelectSeq(feed, LAMBDA f : Contains(Lower(f.period), name))
    IN  [i \in DOMAIN hits |-> hits[i].summary]

\* The 'Valley: high/low, description' line, or 'No data' without valley stats.
ValleyLineOrPlaceholder ==
    LET val == call_arg.day.valley
    IN  IF val # None
        THEN [text |-> "valley", high |-> val.high, low |-> val.low,
              desc |-> wmo_info(val.weather_code)[1]]
        ELSE [text |-> "No data"]

\* Absent valley stats and absent period summaries give "--" and null in the
\* card, and generate_html returns.
CardSurvivesAbsence ==
    /\ ~IsRaise(call_out.value)
    /\ LET card == call_out.value.value.cards[1]
           day == call_arg.day
       IN  /\ (day.valley = None) => card.valHigh = [str |-> "--"] /\ card.valLow = [str |-> "--"]
           /\ (day.am = None) <=> (card.am = None)
           /\ (day.pm = None) <=> (card.pm = None)
           /\ (day.night = None) <=> (card.night = None)

\* C17 (as claimed): the valley text of a card is the matching summaries joined
\* in feed order when at least one block matches, else the valley line when the
\* valley stats are present, else 'No data'; absent inputs give placeholders or
\* null and never an error.
C17_MatchAlwaysShown ==
    Returned("generate_html") =>
        /\ CardSurvivesAbsence
        /\ call_out.value.value.cards[1].valley =
              (IF MatchingSummaries # <<>>
               THEN [text |-> "ec", summaries |-> MatchingSummaries]
               ELSE ValleyLineOrPlaceholder)

\* C17 (amended): the same, the matching summaries being shown when their joined
\* text is not empty; a single matching block with an empty summary gives the
\* valley line or 'No data' like no match at all.
C17_ValleyText ==
    Returned("generate_html") =>
        /\ CardSurvivesAbsence
        /\ call_out.value.value.cards[1].valley =
              (IF MatchingSummaries # <<>> /\ MatchingSummaries # <<"">>
               THEN [text |-> "ec", summaries |-> MatchingSummaries]
               ELSE ValleyLineOrPlaceholder)

\* A card whose valley text joins two matching summaries in feed order, the
\* second from a block labelled in capitals, while the valley stats and the
\* period summaries of the day are absent.
C17_Witness ==
    /\ Returned("generate_html")
    /\ call_arg.day.valley = None /\ call_arg.day.am = None
    /\ call_arg.ec_forecasts # None
    /\ Len(call_arg.ec_forecasts.forecasts) = 2
    /\ call_arg.ec_forecasts.forecasts[2].period = <<"S","U","N","D","A","Y">>
    /\ call_out.value.value.cards[1].valley =
          [text |-> "ec", summaries |-> <<"Clear.", "Windy.">>]
    /\ call_out.value.value.cards[1].am = None

====
